---------------------------- MODULE Spec2Model ----------------------------
(***************************************************************************)
(* CardSnaply: the text-to-contact inference engine (OCRProcessor of the   *)
(* web app, src/unnamed/part_010) and the vCard codec (VCardHandler,       *)
(* src/unnamed/part_013).                                                  *)
(*                                                                         *)
(* A JavaScript string is a sequence of characters.  An ASCII character is *)
(* the one-character TLA+ string ("a", " ", "\n"; the vertical tab, which  *)
(* has no escape, is the character itself); a non-ASCII character is the   *)
(* token "U+XXXX" of its UTF-16 code unit ("U+2022" is the bullet, and a   *)
(* character beyond U+FFFF is the two tokens of its surrogate pair).       *)
(* Chars("Jane Doe") is the JavaScript string 'Jane Doe'.  Offsets into a  *)
(* string are JavaScript's (0-based): offset p lies before character p+1.  *)
(***************************************************************************)
EXTENDS Integers, Sequences, FiniteSets, TLC

Chars(str) == [i \in 1..Len(str) |-> SubSeq(str, i, i)]

CharSet(str) == {SubSeq(str, i, i) : i \in 1..Len(str)}

UpperStr == "ABCDEFGHIJKLMNOPQRSTUVWXYZ"

LowerStr == "abcdefghijklmnopqrstuvwxyz"

UpperChars == CharSet(UpperStr)

LowerChars == CharSet(LowerStr)

DigitChars == CharSet("0123456789")

LetterChars == UpperChars \cup LowerChars

\* \w of a JavaScript regular expression without the u flag
WordChars == LetterChars \cup DigitChars \cup {"_"}

\* [\u2010-\u2015\u2013\u2014]
UnicodeDashes == {"U+2010", "U+2011", "U+2012", "U+2013", "U+2014", "U+2015"}

\* \v, U+000B
VerticalTab == ""

\* \s of a JavaScript regular expression (and the set String.prototype.trim
\* removes): the ASCII white space and line terminators, and the Unicode ones
SpaceChars ==
    {" ", "\t", "\n", "\r", "\f", VerticalTab} \cup
    {"U+00A0", "U+1680", "U+2000", "U+2001", "U+2002", "U+2003", "U+2004",
     "U+2005", "U+2006", "U+2007", "U+2008", "U+2009", "U+200A", "U+2028",
     "U+2029", "U+202F", "U+205F", "U+3000", "U+FEFF"}

IsAscii(c) == Len(c) = 1

LowerMap == [i \in 1..26 |-> SubSeq(LowerStr, i, i)]

UpperIndex == [c \in UpperChars |-> CHOOSE i \in 1..26 : SubSeq(UpperStr, i, i) = c]

\* String.prototype.toLowerCase of an ASCII character
ToLowerChar(c) == IF c \in UpperChars THEN LowerMap[UpperIndex[c]] ELSE c

(***************************************************************************)
(* Case conversion of the characters beyond ASCII, as the Unicode          *)
(* character database has it: the mappings of toLowerCase and toUpperCase  *)
(* and the two character properties (Cased, Case_Ignorable) the final      *)
(* sigma rule reads.  The tables are those of Unicode 17.0.                *)
(***************************************************************************)
HexDigits == "0123456789ABCDEF"

HexValue(d) == CHOOSE v \in 0..15 : SubSeq(HexDigits, v + 1, v + 1) = d

HexDigit(v) == SubSeq(HexDigits, v + 1, v + 1)

\* the code unit of a non-ASCII character
CodeUnit(c) ==
    4096 * HexValue(SubSeq(c, 3, 3)) + 256 * HexValue(SubSeq(c, 4, 4))
        + 16 * HexValue(SubSeq(c, 5, 5)) + HexValue(SubSeq(c, 6, 6))

\* the non-ASCII character of a code unit
Token(n) ==
    "U+" \o HexDigit(n \div 4096) \o HexDigit((n \div 256) % 16)
         \o HexDigit((n \div 16) % 16) \o HexDigit(n % 16)

IsHighSurrogate(c) == ~IsAscii(c) /\ CodeUnit(c) \in 55296..56319

IsLowSurrogate(c) == ~IsAscii(c) /\ CodeUnit(c) \in 56320..57343

\* character i is the first, the second half of a surrogate pair
FirstOfPair(s, i) == i < Len(s) /\ IsHighSurrogate(s[i]) /\ IsLowSurrogate(s[i + 1])

SecondOfPair(s, i) == i > 1 /\ IsLowSurrogate(s[i]) /\ IsHighSurrogate(s[i - 1])

InSteps(n, lo, hi, step) == n >= lo /\ n <= hi /\ (n - lo) % step = 0

\* String.prototype.toLowerCase on code units lo..hi in steps of step: <<lo, hi, step, delta>>
LowerRanges ==
    <<
       <<192, 214, 1, 32>>, <<216, 222, 1, 32>>, <<256, 302, 2, 1>>, <<306, 310, 2, 1>>,
       <<313, 327, 2, 1>>, <<330, 374, 2, 1>>, <<376, 376, 1, -121>>, <<377, 381, 2, 1>>,
       <<385, 385, 1, 210>>, <<386, 388, 2, 1>>, <<390, 390, 1, 206>>, <<391, 391, 1, 1>>,
       <<393, 394, 1, 205>>, <<395, 395, 1, 1>>, <<398, 398, 1, 79>>, <<399, 399, 1, 202>>,
       <<400, 400, 1, 203>>, <<401, 401, 1, 1>>, <<403, 403, 1, 205>>, <<404, 404, 1, 207>>,
       <<406, 406, 1, 211>>, <<407, 407, 1, 209>>, <<408, 408, 1, 1>>, <<412, 412, 1, 211>>,
       <<413, 413, 1, 213>>, <<415, 415, 1, 214>>, <<416, 420, 2, 1>>, <<422, 422, 1, 218>>,
       <<423, 423, 1, 1>>, <<425, 425, 1, 218>>, <<428, 428, 1, 1>>, <<430, 430, 1, 218>>,
       <<431, 431, 1, 1>>, <<433, 434, 1, 217>>, <<435, 437, 2, 1>>, <<439, 439, 1, 219>>,
       <<440, 440, 1, 1>>, <<444, 444, 1, 1>>, <<452, 452, 1, 2>>, <<453, 453, 1, 1>>,
       <<455, 455, 1, 2>>, <<456, 456, 1, 1>>, <<458, 458, 1, 2>>, <<459, 475, 2, 1>>,
       <<478, 494, 2, 1>>, <<497, 497, 1, 2>>, <<498, 500, 2, 1>>, <<502, 502, 1, -97>>,
       <<503, 503, 1, -56>>, <<504, 542, 2, 1>>, <<544, 544, 1, -130>>, <<546, 562, 2, 1>>,
       <<570, 570, 1, 10795>>, <<571, 571, 1, 1>>, <<573, 573, 1, -163>>, <<574, 574, 1, 10792>>,
       <<577, 577, 1, 1>>, <<579, 579, 1, -195>>, <<580, 580, 1, 69>>, <<581, 581, 1, 71>>,
       <<582, 590, 2, 1>>, <<880, 882, 2, 1>>, <<886, 886, 1, 1>>, <<895, 895, 1, 116>>,
       <<902, 902, 1, 38>>, <<904, 906, 1, 37>>, <<908, 908, 1, 64>>, <<910, 911, 1, 63>>,
       <<913, 929, 1, 32>>, <<931, 939, 1, 32>>, <<975, 975, 1, 8>>, <<984, 1006, 2, 1>>,
       <<1012, 1012, 1, -60>>, <<1015, 1015, 1, 1>>, <<1017, 1017, 1, -7>>, <<1018, 1018, 1, 1>>,
       <<1021, 1023, 1, -130>>, <<1024, 1039, 1, 80>>, <<1040, 1071, 1, 32>>, <<1120, 1152, 2, 1>>,
       <<1162, 1214, 2, 1>>, <<1216, 1216, 1, 15>>, <<1217, 1229, 2, 1>>, <<1232, 1326, 2, 1>>,
       <<1329, 1366, 1, 48>>, <<4256, 4293, 1, 7264>>, <<4295, 4295, 1, 7264>>, <<4301, 4301, 1, 7264>>,
       <<5024, 5103, 1, 38864>>, <<5104, 5109, 1, 8>>, <<7305, 7305, 1, 1>>, <<7312, 7354, 1, -3008>>,
       <<7357, 7359, 1, -3008>>, <<7680, 7828, 2, 1>>, <<7838, 7838, 1, -7615>>, <<7840, 7934, 2, 1>>,
       <<7944, 7951, 1, -8>>, <<7960, 7965, 1, -8>>, <<7976, 7983, 1, -8>>, <<7992, 7999, 1, -8>>,
       <<8008, 8013, 1, -8>>, <<8025, 8031, 2, -8>>, <<8040, 8047, 1, -8>>, <<8072, 8079, 1, -8>>,
       <<8088, 8095, 1, -8>>, <<8104, 8111, 1, -8>>, <<8120, 8121, 1, -8>>, <<8122, 8123, 1, -74>>,
       <<8124, 8124, 1, -9>>, <<8136, 8139, 1, -86>>, <<8140, 8140, 1, -9>>, <<8152, 8153, 1, -8>>,
       <<8154, 8155, 1, -100>>, <<8168, 8169, 1, -8>>, <<8170, 8171, 1, -112>>, <<8172, 8172, 1, -7>>,
       <<8184, 8185, 1, -128>>, <<8186, 8187, 1, -126>>, <<8188, 8188, 1, -9>>, <<8486, 8486, 1, -7517>>,
       <<8491, 8491, 1, -8262>>, <<8498, 8498, 1, 28>>, <<8544, 8559, 1, 16>>, <<8579, 8579, 1, 1>>,
       <<9398, 9423, 1, 26>>, <<11264, 11311, 1, 48>>, <<11360, 11360, 1, 1>>, <<11362, 11362, 1, -10743>>,
       <<11363, 11363, 1, -3814>>, <<11364, 11364, 1, -10727>>, <<11367, 11371, 2, 1>>, <<11373, 11373, 1, -10780>>,
       <<11374, 11374, 1, -10749>>, <<11375, 11375, 1, -10783>>, <<11376, 11376, 1, -10782>>, <<11378, 11378, 1, 1>>,
       <<11381, 11381, 1, 1>>, <<11390, 11391, 1, -10815>>, <<11392, 11490, 2, 1>>, <<11499, 11501, 2, 1>>,
       <<11506, 11506, 1, 1>>, <<42560, 42604, 2, 1>>, <<42624, 42650, 2, 1>>, <<42786, 42798, 2, 1>>,
       <<42802, 42862, 2, 1>>, <<42873, 42875, 2, 1>>, <<42877, 42877, 1, -35332>>, <<42878, 42886, 2, 1>>,
       <<42891, 42891, 1, 1>>, <<42893, 42893, 1, -42280>>, <<42896, 42898, 2, 1>>, <<42902, 42920, 2, 1>>,
       <<42922, 42922, 1, -42308>>, <<42923, 42923, 1, -42319>>, <<42924, 42924, 1, -42315>>, <<42925, 42925, 1, -42305>>,
       <<42926, 42926, 1, -42308>>, <<42928, 42928, 1, -42258>>, <<42929, 42929, 1, -42282>>, <<42930, 42930, 1, -42261>>,
       <<42931, 42931, 1, 928>>, <<42932, 42946, 2, 1>>, <<42948, 42948, 1, -48>>, <<42949, 42949, 1, -42307>>,
       <<42950, 42950, 1, -35384>>, <<42951, 42953, 2, 1>>, <<42955, 42955, 1, -42343>>, <<42956, 42970, 2, 1>>,
       <<42972, 42972, 1, -42561>>, <<42997, 42997, 1, 1>>, <<65313, 65338, 1, 32>>
    >>

\* the characters toLowerCase maps to an ASCII letter or to several characters
LowerSpecial ==
    <<
       <<"U+0130", <<"i", "U+0307">>>>, <<"U+212A", <<"k">>>>
    >>

\* toLowerCase on the low surrogate after the high surrogate: <<high, lo, hi, step, delta>>
LowerPairs ==
    <<
       <<55297, 56320, 56359, 1, 40>>, <<55297, 56496, 56531, 1, 40>>, <<55297, 56688, 56698, 1, 39>>,
       <<55297, 56700, 56714, 1, 39>>, <<55297, 56716, 56722, 1, 39>>, <<55297, 56724, 56725, 1, 39>>,
       <<55299, 56448, 56498, 1, 64>>, <<55299, 56656, 56677, 1, 32>>, <<55302, 56480, 56511, 1, 32>>,
       <<55323, 56896, 56927, 1, 32>>, <<55323, 56992, 57016, 1, 27>>, <<55354, 56576, 56609, 1, 34>>
    >>

\* String.prototype.toUpperCase on code units lo..hi in steps of step: <<lo, hi, step, delta>>
UpperRanges ==
    <<
       <<181, 181, 1, 743>>, <<224, 246, 1, -32>>, <<248, 254, 1, -32>>, <<255, 255, 1, 121>>,
       <<257, 303, 2, -1>>, <<307, 311, 2, -1>>, <<314, 328, 2, -1>>, <<331, 375, 2, -1>>,
       <<378, 382, 2, -1>>, <<384, 384, 1, 195>>, <<387, 389, 2, -1>>, <<392, 392, 1, -1>>,
       <<396, 396, 1, -1>>, <<402, 402, 1, -1>>, <<405, 405, 1, 97>>, <<409, 409, 1, -1>>,
       <<410, 410, 1, 163>>, <<411, 411, 1, 42561>>, <<414, 414, 1, 130>>, <<417, 421, 2, -1>>,
       <<424, 424, 1, -1>>, <<429, 429, 1, -1>>, <<432, 432, 1, -1>>, <<436, 438, 2, -1>>,
       <<441, 441, 1, -1>>, <<445, 445, 1, -1>>, <<447, 447, 1, 56>>, <<453, 453, 1, -1>>,
       <<454, 454, 1, -2>>, <<456, 456, 1, -1>>, <<457, 457, 1, -2>>, <<459, 459, 1, -1>>,
       <<460, 460, 1, -2>>, <<462, 476, 2, -1>>, <<477, 477, 1, -79>>, <<479, 495, 2, -1>>,
       <<498, 498, 1, -1>>, <<499, 499, 1, -2>>, <<501, 501, 1, -1>>, <<505, 543, 2, -1>>,
       <<547, 563, 2, -1>>, <<572, 572, 1, -1>>, <<575, 576, 1, 10815>>, <<578, 578, 1, -1>>,
       <<583, 591, 2, -1>>, <<592, 592, 1, 10783>>, <<593, 593, 1, 10780>>, <<594, 594, 1, 10782>>,
       <<595, 595, 1, -210>>, <<596, 596, 1, -206>>, <<598, 599, 1, -205>>, <<601, 601, 1, -202>>,
       <<603, 603, 1, -203>>, <<604, 604, 1, 42319>>, <<608, 608, 1, -205>>, <<609, 609, 1, 42315>>,
       <<611, 611, 1, -207>>, <<612, 612, 1, 42343>>, <<613, 613, 1, 42280>>, <<614, 614, 1, 42308>>,
       <<616, 616, 1, -209>>, <<617, 617, 1, -211>>, <<618, 618, 1, 42308>>, <<619, 619, 1, 10743>>,
       <<620, 620, 1, 42305>>, <<623, 623, 1, -211>>, <<625, 625, 1, 10749>>, <<626, 626, 1, -213>>,
       <<629, 629, 1, -214>>, <<637, 637, 1, 10727>>, <<640, 640, 1, -218>>, <<642, 642, 1, 42307>>,
       <<643, 643, 1, -218>>, <<647, 647, 1, 42282>>, <<648, 648, 1, -218>>, <<649, 649, 1, -69>>,
       <<650, 651, 1, -217>>, <<652, 652, 1, -71>>, <<658, 658, 1, -219>>, <<669, 669, 1, 42261>>,
       <<670, 670, 1, 42258>>, <<837, 837, 1, 84>>, <<881, 883, 2, -1>>, <<887, 887, 1, -1>>,
       <<891, 893, 1, 130>>, <<940, 940, 1, -38>>, <<941, 943, 1, -37>>, <<945, 961, 1, -32>>,
       <<962, 962, 1, -31>>, <<963, 971, 1, -32>>, <<972, 972, 1, -64>>, <<973, 974, 1, -63>>,
       <<976, 976, 1, -62>>, <<977, 977, 1, -57>>, <<981, 981, 1, -47>>, <<982, 982, 1, -54>>,
       <<983, 983, 1, -8>>, <<985, 1007, 2, -1>>, <<1008, 1008, 1, -86>>, <<1009, 1009, 1, -80>>,
       <<1010, 1010, 1, 7>>, <<1011, 1011, 1, -116>>, <<1013, 1013, 1, -96>>, <<1016, 1016, 1, -1>>,
       <<1019, 1019, 1, -1>>, <<1072, 1103, 1, -32>>, <<1104, 1119, 1, -80>>, <<1121, 1153, 2, -1>>,
       <<1163, 1215, 2, -1>>, <<1218, 1230, 2, -1>>, <<1231, 1231, 1, -15>>, <<1233, 1327, 2, -1>>,
       <<1377, 1414, 1, -48>>, <<4304, 4346, 1, 3008>>, <<4349, 4351, 1, 3008>>, <<5112, 5117, 1, -8>>,
       <<7296, 7296, 1, -6254>>, <<7297, 7297, 1, -6253>>, <<7298, 7298, 1, -6244>>, <<7299, 7300, 1, -6242>>,
       <<7301, 7301, 1, -6243>>, <<7302, 7302, 1, -6236>>, <<7303, 7303, 1, -6181>>, <<7304, 7304, 1, 35266>>,
       <<7306, 7306, 1, -1>>, <<7545, 7545, 1, 35332>>, <<7549, 7549, 1, 3814>>, <<7566, 7566, 1, 35384>>,
       <<7681, 7829, 2, -1>>, <<7835, 7835, 1, -59>>, <<7841, 7935, 2, -1>>, <<7936, 7943, 1, 8>>,
       <<7952, 7957, 1, 8>>, <<7968, 7975, 1, 8>>, <<7984, 7991, 1, 8>>, <<8000, 8005, 1, 8>>,
       <<8017, 8023, 2, 8>>, <<8032, 8039, 1, 8>>, <<8048, 8049, 1, 74>>, <<8050, 8053, 1, 86>>,
       <<8054, 8055, 1, 100>>, <<8056, 8057, 1, 128>>, <<8058, 8059, 1, 112>>, <<8060, 8061, 1, 126>>,
       <<8112, 8113, 1, 8>>, <<8126, 8126, 1, -7205>>, <<8144, 8145, 1, 8>>, <<8160, 8161, 1, 8>>,
       <<8165, 8165, 1, 7>>, <<8526, 8526, 1, -28>>, <<8560, 8575, 1, -16>>, <<8580, 8580, 1, -1>>,
       <<9424, 9449, 1, -26>>, <<11312, 11359, 1, -48>>, <<11361, 11361, 1, -1>>, <<11365, 11365, 1, -10795>>,
       <<11366, 11366, 1, -10792>>, <<11368, 11372, 2, -1>>, <<11379, 11379, 1, -1>>, <<11382, 11382, 1, -1>>,
       <<11393, 11491, 2, -1>>, <<11500, 11502, 2, -1>>, <<11507, 11507, 1, -1>>, <<11520, 11557, 1, -7264>>,
       <<11559, 11559, 1, -7264>>, <<11565, 11565, 1, -7264>>, <<42561, 42605, 2, -1>>, <<42625, 42651, 2, -1>>,
       <<42787, 42799, 2, -1>>, <<42803, 42863, 2, -1>>, <<42874, 42876, 2, -1>>, <<42879, 42887, 2, -1>>,
       <<42892, 42892, 1, -1>>, <<42897, 42899, 2, -1>>, <<42900, 42900, 1, 48>>, <<42903, 42921, 2, -1>>,
       <<42933, 42947, 2, -1>>, <<42952, 42954, 2, -1>>, <<42957, 42971, 2, -1>>, <<42998, 42998, 1, -1>>,
       <<43859, 43859, 1, -928>>, <<43888, 43967, 1, -38864>>, <<65345, 65370, 1, -32>>
    >>

\* the characters toUpperCase maps to an ASCII letter or to several characters
UpperSpecial ==
    <<
       <<"U+00DF", <<"S", "S">>>>, <<"U+0131", <<"I">>>>, <<"U+0149", <<"U+02BC", "N">>>>,
       <<"U+017F", <<"S">>>>, <<"U+01F0", <<"J", "U+030C">>>>, <<"U+0390", <<"U+0399", "U+0308", "U+0301">>>>,
       <<"U+03B0", <<"U+03A5", "U+0308", "U+0301">>>>, <<"U+0587", <<"U+0535", "U+0552">>>>, <<"U+1E96", <<"H", "U+0331">>>>,
       <<"U+1E97", <<"T", "U+0308">>>>, <<"U+1E98", <<"W", "U+030A">>>>, <<"U+1E99", <<"Y", "U+030A">>>>,
       <<"U+1E9A", <<"A", "U+02BE">>>>, <<"U+1F50", <<"U+03A5", "U+0313">>>>, <<"U+1F52", <<"U+03A5", "U+0313", "U+0300">>>>,
       <<"U+1F54", <<"U+03A5", "U+0313", "U+0301">>>>, <<"U+1F56", <<"U+03A5", "U+0313", "U+0342">>>>, <<"U+1F80", <<"U+1F08", "U+0399">>>>,
       <<"U+1F81", <<"U+1F09", "U+0399">>>>, <<"U+1F82", <<"U+1F0A", "U+0399">>>>, <<"U+1F83", <<"U+1F0B", "U+0399">>>>,
       <<"U+1F84", <<"U+1F0C", "U+0399">>>>, <<"U+1F85", <<"U+1F0D", "U+0399">>>>, <<"U+1F86", <<"U+1F0E", "U+0399">>>>,
       <<"U+1F87", <<"U+1F0F", "U+0399">>>>, <<"U+1F88", <<"U+1F08", "U+0399">>>>, <<"U+1F89", <<"U+1F09", "U+0399">>>>,
       <<"U+1F8A", <<"U+1F0A", "U+0399">>>>, <<"U+1F8B", <<"U+1F0B", "U+0399">>>>, <<"U+1F8C", <<"U+1F0C", "U+0399">>>>,
       <<"U+1F8D", <<"U+1F0D", "U+0399">>>>, <<"U+1F8E", <<"U+1F0E", "U+0399">>>>, <<"U+1F8F", <<"U+1F0F", "U+0399">>>>,
       <<"U+1F90", <<"U+1F28", "U+0399">>>>, <<"U+1F91", <<"U+1F29", "U+0399">>>>, <<"U+1F92", <<"U+1F2A", "U+0399">>>>,
       <<"U+1F93", <<"U+1F2B", "U+0399">>>>, <<"U+1F94", <<"U+1F2C", "U+0399">>>>, <<"U+1F95", <<"U+1F2D", "U+0399">>>>,
       <<"U+1F96", <<"U+1F2E", "U+0399">>>>, <<"U+1F97", <<"U+1F2F", "U+0399">>>>, <<"U+1F98", <<"U+1F28", "U+0399">>>>,
       <<"U+1F99", <<"U+1F29", "U+0399">>>>, <<"U+1F9A", <<"U+1F2A", "U+0399">>>>, <<"U+1F9B", <<"U+1F2B", "U+0399">>>>,
       <<"U+1F9C", <<"U+1F2C", "U+0399">>>>, <<"U+1F9D", <<"U+1F2D", "U+0399">>>>, <<"U+1F9E", <<"U+1F2E", "U+0399">>>>,
       <<"U+1F9F", <<"U+1F2F", "U+0399">>>>, <<"U+1FA0", <<"U+1F68", "U+0399">>>>, <<"U+1FA1", <<"U+1F69", "U+0399">>>>,
       <<"U+1FA2", <<"U+1F6A", "U+0399">>>>, <<"U+1FA3", <<"U+1F6B", "U+0399">>>>, <<"U+1FA4", <<"U+1F6C", "U+0399">>>>,
       <<"U+1FA5", <<"U+1F6D", "U+0399">>>>, <<"U+1FA6", <<"U+1F6E", "U+0399">>>>, <<"U+1FA7", <<"U+1F6F", "U+0399">>>>,
       <<"U+1FA8", <<"U+1F68", "U+0399">>>>, <<"U+1FA9", <<"U+1F69", "U+0399">>>>, <<"U+1FAA", <<"U+1F6A", "U+0399">>>>,
       <<"U+1FAB", <<"U+1F6B", "U+0399">>>>, <<"U+1FAC", <<"U+1F6C", "U+0399">>>>, <<"U+1FAD", <<"U+1F6D", "U+0399">>>>,
       <<"U+1FAE", <<"U+1F6E", "U+0399">>>>, <<"U+1FAF", <<"U+1F6F", "U+0399">>>>, <<"U+1FB2", <<"U+1FBA", "U+0399">>>>,
       <<"U+1FB3", <<"U+0391", "U+0399">>>>, <<"U+1FB4", <<"U+0386", "U+0399">>>>, <<"U+1FB6", <<"U+0391", "U+0342">>>>,
       <<"U+1FB7", <<"U+0391", "U+0342", "U+0399">>>>, <<"U+1FBC", <<"U+0391", "U+0399">>>>, <<"U+1FC2", <<"U+1FCA", "U+0399">>>>,
       <<"U+1FC3", <<"U+0397", "U+0399">>>>, <<"U+1FC4", <<"U+0389", "U+0399">>>>, <<"U+1FC6", <<"U+0397", "U+0342">>>>,
       <<"U+1FC7", <<"U+0397", "U+0342", "U+0399">>>>, <<"U+1FCC", <<"U+0397", "U+0399">>>>, <<"U+1FD2", <<"U+0399", "U+0308", "U+0300">>>>,
       <<"U+1FD3", <<"U+0399", "U+0308", "U+0301">>>>, <<"U+1FD6", <<"U+0399", "U+0342">>>>, <<"U+1FD7", <<"U+0399", "U+0308", "U+0342">>>>,
       <<"U+1FE2", <<"U+03A5", "U+0308", "U+0300">>>>, <<"U+1FE3", <<"U+03A5", "U+0308", "U+0301">>>>, <<"U+1FE4", <<"U+03A1", "U+0313">>>>,
       <<"U+1FE6", <<"U+03A5", "U+0342">>>>, <<"U+1FE7", <<"U+03A5", "U+0308", "U+0342">>>>, <<"U+1FF2", <<"U+1FFA", "U+0399">>>>,
       <<"U+1FF3", <<"U+03A9", "U+0399">>>>, <<"U+1FF4", <<"U+038F", "U+0399">>>>, <<"U+1FF6", <<"U+03A9", "U+0342">>>>,
       <<"U+1FF7", <<"U+03A9", "U+0342", "U+0399">>>>, <<"U+1FFC", <<"U+03A9", "U+0399">>>>, <<"U+FB00", <<"F", "F">>>>,
       <<"U+FB01", <<"F", "I">>>>, <<"U+FB02", <<"F", "L">>>>, <<"U+FB03", <<"F", "F", "I">>>>,
       <<"U+FB04", <<"F", "F", "L">>>>, <<"U+FB05", <<"S", "T">>>>, <<"U+FB06", <<"S", "T">>>>,
       <<"U+FB13", <<"U+0544", "U+0546">>>>, <<"U+FB14", <<"U+0544", "U+0535">>>>, <<"U+FB15", <<"U+0544", "U+053B">>>>,
       <<"U+FB16", <<"U+054E", "U+0546">>>>, <<"U+FB17", <<"U+0544", "U+053D">>>>
    >>

\* toUpperCase on the low surrogate after the high surrogate: <<high, lo, hi, step, delta>>
UpperPairs ==
    <<
       <<55297, 56360, 56399, 1, -40>>, <<55297, 56536, 56571, 1, -40>>, <<55297, 56727, 56737, 1, -39>>,
       <<55297, 56739, 56753, 1, -39>>, <<55297, 56755, 56761, 1, -39>>, <<55297, 56763, 56764, 1, -39>>,
       <<55299, 56512, 56562, 1, -64>>, <<55299, 56688, 56709, 1, -32>>, <<55302, 56512, 56543, 1, -32>>,
       <<55323, 56928, 56959, 1, -32>>, <<55323, 57019, 57043, 1, -27>>, <<55354, 56610, 56643, 1, -34>>
    >>

\* the code units lo..hi in steps of step that are cased and not case-ignorable: <<lo, hi, step>>
CasedRanges ==
    <<
       <<170, 170, 1>>, <<181, 181, 1>>, <<186, 186, 1>>, <<192, 214, 1>>, <<216, 246, 1>>,
       <<248, 442, 1>>, <<444, 447, 1>>, <<452, 659, 1>>, <<662, 687, 1>>, <<880, 883, 1>>,
       <<886, 887, 1>>, <<891, 893, 1>>, <<895, 895, 1>>, <<902, 904, 2>>, <<905, 906, 1>>,
       <<908, 910, 2>>, <<911, 929, 1>>, <<931, 1013, 1>>, <<1015, 1153, 1>>, <<1162, 1327, 1>>,
       <<1329, 1366, 1>>, <<1376, 1416, 1>>, <<4256, 4293, 1>>, <<4295, 4295, 1>>, <<4301, 4301, 1>>,
       <<4304, 4346, 1>>, <<4349, 4351, 1>>, <<5024, 5109, 1>>, <<5112, 5117, 1>>, <<7296, 7306, 1>>,
       <<7312, 7354, 1>>, <<7357, 7359, 1>>, <<7424, 7467, 1>>, <<7531, 7543, 1>>, <<7545, 7578, 1>>,
       <<7680, 7957, 1>>, <<7960, 7965, 1>>, <<7968, 8005, 1>>, <<8008, 8013, 1>>, <<8016, 8023, 1>>,
       <<8025, 8031, 2>>, <<8032, 8061, 1>>, <<8064, 8116, 1>>, <<8118, 8124, 1>>, <<8126, 8126, 1>>,
       <<8130, 8132, 1>>, <<8134, 8140, 1>>, <<8144, 8147, 1>>, <<8150, 8155, 1>>, <<8160, 8172, 1>>,
       <<8178, 8180, 1>>, <<8182, 8188, 1>>, <<8450, 8450, 1>>, <<8455, 8455, 1>>, <<8458, 8467, 1>>,
       <<8469, 8469, 1>>, <<8473, 8477, 1>>, <<8484, 8490, 2>>, <<8491, 8493, 1>>, <<8495, 8500, 1>>,
       <<8505, 8505, 1>>, <<8508, 8511, 1>>, <<8517, 8521, 1>>, <<8526, 8526, 1>>, <<8544, 8575, 1>>,
       <<8579, 8580, 1>>, <<9398, 9449, 1>>, <<11264, 11387, 1>>, <<11390, 11492, 1>>, <<11499, 11502, 1>>,
       <<11506, 11507, 1>>, <<11520, 11557, 1>>, <<11559, 11559, 1>>, <<11565, 11565, 1>>, <<42560, 42605, 1>>,
       <<42624, 42651, 1>>, <<42786, 42863, 1>>, <<42865, 42887, 1>>, <<42891, 42894, 1>>, <<42896, 42972, 1>>,
       <<42997, 42998, 1>>, <<43002, 43002, 1>>, <<43824, 43866, 1>>, <<43872, 43880, 1>>, <<43888, 43967, 1>>,
       <<64256, 64262, 1>>, <<64275, 64279, 1>>, <<65313, 65338, 1>>, <<65345, 65370, 1>>
    >>

\* the surrogate pairs that are cased and not case-ignorable: <<high, lo, hi, step>>
CasedPairs ==
    <<
       <<55297, 56320, 56399, 1>>, <<55297, 56496, 56531, 1>>, <<55297, 56536, 56571, 1>>, <<55297, 56688, 56698, 1>>,
       <<55297, 56700, 56714, 1>>, <<55297, 56716, 56722, 1>>, <<55297, 56724, 56725, 1>>, <<55297, 56727, 56737, 1>>,
       <<55297, 56739, 56753, 1>>, <<55297, 56755, 56761, 1>>, <<55297, 56763, 56764, 1>>, <<55299, 56448, 56498, 1>>,
       <<55299, 56512, 56562, 1>>, <<55299, 56656, 56677, 1>>, <<55299, 56688, 56709, 1>>, <<55302, 56480, 56543, 1>>,
       <<55323, 56896, 56959, 1>>, <<55323, 56992, 57016, 1>>, <<55323, 57019, 57043, 1>>, <<55349, 56320, 56404, 1>>,
       <<55349, 56406, 56476, 1>>, <<55349, 56478, 56479, 1>>, <<55349, 56482, 56482, 1>>, <<55349, 56485, 56486, 1>>,
       <<55349, 56489, 56492, 1>>, <<55349, 56494, 56505, 1>>, <<55349, 56507, 56509, 2>>, <<55349, 56510, 56515, 1>>,
       <<55349, 56517, 56581, 1>>, <<55349, 56583, 56586, 1>>, <<55349, 56589, 56596, 1>>, <<55349, 56598, 56604, 1>>,
       <<55349, 56606, 56633, 1>>, <<55349, 56635, 56638, 1>>, <<55349, 56640, 56644, 1>>, <<55349, 56646, 56646, 1>>,
       <<55349, 56650, 56656, 1>>, <<55349, 56658, 56997, 1>>, <<55349, 57000, 57024, 1>>, <<55349, 57026, 57050, 1>>,
       <<55349, 57052, 57082, 1>>, <<55349, 57084, 57108, 1>>, <<55349, 57110, 57140, 1>>, <<55349, 57142, 57166, 1>>,
       <<55349, 57168, 57198, 1>>, <<55349, 57200, 57224, 1>>, <<55349, 57226, 57256, 1>>, <<55349, 57258, 57282, 1>>,
       <<55349, 57284, 57291, 1>>, <<55351, 57088, 57097, 1>>, <<55351, 57099, 57118, 1>>, <<55351, 57125, 57130, 1>>,
       <<55354, 56576, 56643, 1>>, <<55356, 56624, 56649, 1>>, <<55356, 56656, 56681, 1>>, <<55356, 56688, 56713, 1>>
    >>

\* the code units lo..hi in steps of step that are case-ignorable: <<lo, hi, step>>
CaseIgnorableRanges ==
    <<
       <<168, 168, 1>>, <<173, 175, 2>>, <<180, 180, 1>>, <<183, 184, 1>>, <<688, 879, 1>>,
       <<884, 885, 1>>, <<890, 890, 1>>, <<900, 901, 1>>, <<903, 903, 1>>, <<1155, 1161, 1>>,
       <<1369, 1369, 1>>, <<1375, 1375, 1>>, <<1425, 1469, 1>>, <<1471, 1473, 2>>, <<1474, 1476, 2>>,
       <<1477, 1479, 2>>, <<1524, 1524, 1>>, <<1536, 1541, 1>>, <<1552, 1562, 1>>, <<1564, 1564, 1>>,
       <<1600, 1600, 1>>, <<1611, 1631, 1>>, <<1648, 1648, 1>>, <<1750, 1757, 1>>, <<1759, 1768, 1>>,
       <<1770, 1773, 1>>, <<1807, 1809, 2>>, <<1840, 1866, 1>>, <<1958, 1968, 1>>, <<2027, 2037, 1>>,
       <<2042, 2042, 1>>, <<2045, 2045, 1>>, <<2070, 2093, 1>>, <<2137, 2139, 1>>, <<2184, 2184, 1>>,
       <<2192, 2193, 1>>, <<2199, 2207, 1>>, <<2249, 2306, 1>>, <<2362, 2364, 2>>, <<2369, 2376, 1>>,
       <<2381, 2381, 1>>, <<2385, 2391, 1>>, <<2402, 2403, 1>>, <<2417, 2417, 1>>, <<2433, 2433, 1>>,
       <<2492, 2492, 1>>, <<2497, 2500, 1>>, <<2509, 2509, 1>>, <<2530, 2531, 1>>, <<2558, 2558, 1>>,
       <<2561, 2562, 1>>, <<2620, 2620, 1>>, <<2625, 2626, 1>>, <<2631, 2632, 1>>, <<2635, 2637, 1>>,
       <<2641, 2641, 1>>, <<2672, 2673, 1>>, <<2677, 2677, 1>>, <<2689, 2690, 1>>, <<2748, 2748, 1>>,
       <<2753, 2757, 1>>, <<2759, 2760, 1>>, <<2765, 2765, 1>>, <<2786, 2787, 1>>, <<2810, 2815, 1>>,
       <<2817, 2817, 1>>, <<2876, 2876, 1>>, <<2879, 2881, 2>>, <<2882, 2884, 1>>, <<2893, 2893, 1>>,
       <<2901, 2902, 1>>, <<2914, 2915, 1>>, <<2946, 2946, 1>>, <<3008, 3008, 1>>, <<3021, 3021, 1>>,
       <<3072, 3072, 1>>, <<3076, 3076, 1>>, <<3132, 3134, 2>>, <<3135, 3136, 1>>, <<3142, 3144, 1>>,
       <<3146, 3149, 1>>, <<3157, 3158, 1>>, <<3170, 3171, 1>>, <<3201, 3201, 1>>, <<3260, 3260, 1>>,
       <<3263, 3263, 1>>, <<3270, 3270, 1>>, <<3276, 3277, 1>>, <<3298, 3299, 1>>, <<3328, 3329, 1>>,
       <<3387, 3388, 1>>, <<3393, 3396, 1>>, <<3405, 3405, 1>>, <<3426, 3427, 1>>, <<3457, 3457, 1>>,
       <<3530, 3530, 1>>, <<3538, 3540, 1>>, <<3542, 3542, 1>>, <<3633, 3633, 1>>, <<3636, 3642, 1>>,
       <<3654, 3662, 1>>, <<3761, 3761, 1>>, <<3764, 3772, 1>>, <<3782, 3784, 2>>, <<3785, 3790, 1>>,
       <<3864, 3865, 1>>, <<3893, 3897, 2>>, <<3953, 3966, 1>>, <<3968, 3972, 1>>, <<3974, 3975, 1>>,
       <<3981, 3991, 1>>, <<3993, 4028, 1>>, <<4038, 4038, 1>>, <<4141, 4144, 1>>, <<4146, 4151, 1>>,
       <<4153, 4154, 1>>, <<4157, 4158, 1>>, <<4184, 4185, 1>>, <<4190, 4192, 1>>, <<4209, 4212, 1>>,
       <<4226, 4226, 1>>, <<4229, 4230, 1>>, <<4237, 4237, 1>>, <<4253, 4253, 1>>, <<4348, 4348, 1>>,
       <<4957, 4959, 1>>, <<5906, 5908, 1>>, <<5938, 5939, 1>>, <<5970, 5971, 1>>, <<6002, 6003, 1>>,
       <<6068, 6069, 1>>, <<6071, 6077, 1>>, <<6086, 6086, 1>>, <<6089, 6099, 1>>, <<6103, 6103, 1>>,
       <<6109, 6109, 1>>, <<6155, 6159, 1>>, <<6211, 6211, 1>>, <<6277, 6278, 1>>, <<6313, 6313, 1>>,
       <<6432, 6434, 1>>, <<6439, 6440, 1>>, <<6450, 6450, 1>>, <<6457, 6459, 1>>, <<6679, 6680, 1>>,
       <<6683, 6683, 1>>, <<6742, 6744, 2>>, <<6745, 6750, 1>>, <<6752, 6754, 2>>, <<6757, 6764, 1>>,
       <<6771, 6780, 1>>, <<6783, 6783, 1>>, <<6823, 6823, 1>>, <<6832, 6877, 1>>, <<6880, 6891, 1>>,
       <<6912, 6915, 1>>, <<6964, 6966, 2>>, <<6967, 6970, 1>>, <<6972, 6972, 1>>, <<6978, 6978, 1>>,
       <<7019, 7027, 1>>, <<7040, 7041, 1>>, <<7074, 7077, 1>>, <<7080, 7081, 1>>, <<7083, 7085, 1>>,
       <<7142, 7144, 2>>, <<7145, 7145, 1>>, <<7149, 7151, 2>>, <<7152, 7153, 1>>, <<7212, 7219, 1>>,
       <<7222, 7223, 1>>, <<7288, 7293, 1>>, <<7376, 7378, 1>>, <<7380, 7392, 1>>, <<7394, 7400, 1>>,
       <<7405, 7405, 1>>, <<7412, 7412, 1>>, <<7416, 7417, 1>>, <<7468, 7530, 1>>, <<7544, 7544, 1>>,
       <<7579, 7679, 1>>, <<8125, 8127, 2>>, <<8128, 8129, 1>>, <<8141, 8143, 1>>, <<8157, 8159, 1>>,
       <<8173, 8175, 1>>, <<8189, 8190, 1>>, <<8203, 8207, 1>>, <<8216, 8217, 1>>, <<8228, 8228, 1>>,
       <<8231, 8231, 1>>, <<8234, 8238, 1>>, <<8288, 8292, 1>>, <<8294, 8303, 1>>, <<8305, 8305, 1>>,
       <<8319, 8319, 1>>, <<8336, 8348, 1>>, <<8400, 8432, 1>>, <<11388, 11389, 1>>, <<11503, 11505, 1>>,
       <<11631, 11631, 1>>, <<11647, 11647, 1>>, <<11744, 11775, 1>>, <<11823, 11823, 1>>, <<12293, 12293, 1>>,
       <<12330, 12333, 1>>, <<12337, 12341, 1>>, <<12347, 12347, 1>>, <<12441, 12446, 1>>, <<12540, 12542, 1>>,
       <<40981, 40981, 1>>, <<42232, 42237, 1>>, <<42508, 42508, 1>>, <<42607, 42610, 1>>, <<42612, 42621, 1>>,
       <<42623, 42623, 1>>, <<42652, 42655, 1>>, <<42736, 42737, 1>>, <<42752, 42785, 1>>, <<42864, 42864, 1>>,
       <<42888, 42890, 1>>, <<42993, 42996, 1>>, <<43000, 43001, 1>>, <<43010, 43010, 1>>, <<43014, 43014, 1>>,
       <<43019, 43019, 1>>, <<43045, 43046, 1>>, <<43052, 43052, 1>>, <<43204, 43205, 1>>, <<43232, 43249, 1>>,
       <<43263, 43263, 1>>, <<43302, 43309, 1>>, <<43335, 43345, 1>>, <<43392, 43394, 1>>, <<43443, 43443, 1>>,
       <<43446, 43449, 1>>, <<43452, 43453, 1>>, <<43471, 43471, 1>>, <<43493, 43494, 1>>, <<43561, 43566, 1>>,
       <<43569, 43570, 1>>, <<43573, 43574, 1>>, <<43587, 43587, 1>>, <<43596, 43596, 1>>, <<43632, 43632, 1>>,
       <<43644, 43644, 1>>, <<43696, 43698, 2>>, <<43699, 43700, 1>>, <<43703, 43704, 1>>, <<43710, 43711, 1>>,
       <<43713, 43713, 1>>, <<43741, 43741, 1>>, <<43756, 43757, 1>>, <<43763, 43764, 1>>, <<43766, 43766, 1>>,
       <<43867, 43871, 1>>, <<43881, 43883, 1>>, <<44005, 44005, 1>>, <<44008, 44008, 1>>, <<44013, 44013, 1>>,
       <<64286, 64286, 1>>, <<64434, 64450, 1>>, <<65024, 65039, 1>>, <<65043, 65043, 1>>, <<65056, 65071, 1>>,
       <<65106, 65106, 1>>, <<65109, 65109, 1>>, <<65279, 65279, 1>>, <<65287, 65287, 1>>, <<65294, 65294, 1>>,
       <<65306, 65306, 1>>, <<65342, 65344, 2>>, <<65392, 65392, 1>>, <<65438, 65439, 1>>, <<65507, 65507, 1>>,
       <<65529, 65531, 1>>
    >>

\* the surrogate pairs that are case-ignorable: <<high, lo, hi, step>>
CaseIgnorablePairs ==
    <<
       <<55296, 56829, 56829, 1>>, <<55296, 57056, 57056, 1>>, <<55296, 57206, 57210, 1>>, <<55297, 57216, 57221, 1>>,
       <<55297, 57223, 57264, 1>>, <<55297, 57266, 57274, 1>>, <<55298, 56833, 56835, 1>>, <<55298, 56837, 56838, 1>>,
       <<55298, 56844, 56847, 1>>, <<55298, 56888, 56890, 1>>, <<55298, 56895, 56895, 1>>, <<55298, 57061, 57062, 1>>,
       <<55299, 56612, 56615, 1>>, <<55299, 56654, 56654, 1>>, <<55299, 56681, 56685, 1>>, <<55299, 56687, 56687, 1>>,
       <<55299, 57003, 57004, 1>>, <<55299, 57029, 57029, 1>>, <<55299, 57082, 57087, 1>>, <<55299, 57158, 57168, 1>>,
       <<55299, 57218, 57221, 1>>, <<55300, 56321, 56321, 1>>, <<55300, 56376, 56390, 1>>, <<55300, 56432, 56432, 1>>,
       <<55300, 56435, 56436, 1>>, <<55300, 56447, 56449, 1>>, <<55300, 56499, 56502, 1>>, <<55300, 56505, 56506, 1>>,
       <<55300, 56509, 56509, 1>>, <<55300, 56514, 56514, 1>>, <<55300, 56525, 56525, 1>>, <<55300, 56576, 56578, 1>>,
       <<55300, 56615, 56619, 1>>, <<55300, 56621, 56628, 1>>, <<55300, 56691, 56691, 1>>, <<55300, 56704, 56705, 1>>,
       <<55300, 56758, 56766, 1>>, <<55300, 56777, 56780, 1>>, <<55300, 56783, 56783, 1>>, <<55300, 56879, 56881, 1>>,
       <<55300, 56884, 56886, 2>>, <<55300, 56887, 56887, 1>>, <<55300, 56894, 56894, 1>>, <<55300, 56897, 56897, 1>>,
       <<55300, 57055, 57055, 1>>, <<55300, 57059, 57066, 1>>, <<55300, 57088, 57089, 1>>, <<55300, 57147, 57148, 1>>,
       <<55300, 57152, 57152, 1>>, <<55300, 57190, 57196, 1>>, <<55300, 57200, 57204, 1>>, <<55300, 57275, 57280, 1>>,
       <<55300, 57294, 57298, 2>>, <<55300, 57313, 57314, 1>>, <<55301, 56376, 56383, 1>>, <<55301, 56386, 56388, 1>>,
       <<55301, 56390, 56390, 1>>, <<55301, 56414, 56414, 1>>, <<55301, 56499, 56504, 1>>, <<55301, 56506, 56506, 1>>,
       <<55301, 56511, 56512, 1>>, <<55301, 56514, 56515, 1>>, <<55301, 56754, 56757, 1>>, <<55301, 56764, 56765, 1>>,
       <<55301, 56767, 56768, 1>>, <<55301, 56796, 56797, 1>>, <<55301, 56883, 56890, 1>>, <<55301, 56893, 56895, 2>>,
       <<55301, 56896, 56896, 1>>, <<55301, 57003, 57005, 2>>, <<55301, 57008, 57013, 1>>, <<55301, 57015, 57015, 1>>,
       <<55301, 57117, 57119, 2>>, <<55301, 57122, 57125, 1>>, <<55301, 57127, 57131, 1>>, <<55302, 56367, 56375, 1>>,
       <<55302, 56377, 56378, 1>>, <<55302, 56635, 56636, 1>>, <<55302, 56638, 56638, 1>>, <<55302, 56643, 56643, 1>>,
       <<55302, 56788, 56791, 1>>, <<55302, 56794, 56795, 1>>, <<55302, 56800, 56800, 1>>, <<55302, 56833, 56842, 1>>,
       <<55302, 56883, 56888, 1>>, <<55302, 56891, 56894, 1>>, <<55302, 56903, 56903, 1>>, <<55302, 56913, 56918, 1>>,
       <<55302, 56921, 56923, 1>>, <<55302, 56970, 56982, 1>>, <<55302, 56984, 56985, 1>>, <<55302, 57184, 57186, 2>>,
       <<55302, 57187, 57188, 1>>, <<55302, 57190, 57190, 1>>, <<55303, 56368, 56374, 1>>, <<55303, 56376, 56381, 1>>,
       <<55303, 56383, 56383, 1>>, <<55303, 56466, 56487, 1>>, <<55303, 56490, 56496, 1>>, <<55303, 56498, 56499, 1>>,
       <<55303, 56501, 56502, 1>>, <<55303, 56625, 56630, 1>>, <<55303, 56634, 56636, 2>>, <<55303, 56637, 56639, 2>>,
       <<55303, 56640, 56645, 1>>, <<55303, 56647, 56647, 1>>, <<55303, 56720, 56721, 1>>, <<55303, 56725, 56727, 2>>,
       <<55303, 56793, 56793, 1>>, <<55303, 57075, 57076, 1>>, <<55303, 57088, 57089, 1>>, <<55303, 57142, 57146, 1>>,
       <<55303, 57152, 57154, 2>>, <<55303, 57178, 57178, 1>>, <<55309, 56368, 56384, 1>>, <<55309, 56391, 56405, 1>>,
       <<55320, 56606, 56617, 1>>, <<55320, 56621, 56623, 1>>, <<55322, 57072, 57076, 1>>, <<55322, 57136, 57142, 1>>,
       <<55322, 57152, 57155, 1>>, <<55323, 56640, 56642, 1>>, <<55323, 56683, 56684, 1>>, <<55323, 57167, 57167, 1>>,
       <<55323, 57231, 57247, 1>>, <<55323, 57312, 57313, 1>>, <<55323, 57315, 57316, 1>>, <<55323, 57330, 57331, 1>>,
       <<55339, 57328, 57331, 1>>, <<55339, 57333, 57339, 1>>, <<55339, 57341, 57342, 1>>, <<55343, 56477, 56478, 1>>,
       <<55343, 56480, 56483, 1>>, <<55347, 57088, 57133, 1>>, <<55347, 57136, 57158, 1>>, <<55348, 56679, 56681, 1>>,
       <<55348, 56691, 56706, 1>>, <<55348, 56709, 56715, 1>>, <<55348, 56746, 56749, 1>>, <<55348, 56898, 56900, 1>>,
       <<55350, 56832, 56886, 1>>, <<55350, 56891, 56940, 1>>, <<55350, 56949, 56949, 1>>, <<55350, 56964, 56964, 1>>,
       <<55350, 56987, 56991, 1>>, <<55350, 56993, 57007, 1>>, <<55352, 56320, 56326, 1>>, <<55352, 56328, 56344, 1>>,
       <<55352, 56347, 56353, 1>>, <<55352, 56355, 56356, 1>>, <<55352, 56358, 56362, 1>>, <<55352, 56368, 56429, 1>>,
       <<55352, 56463, 56463, 1>>, <<55352, 56624, 56637, 1>>, <<55352, 57006, 57006, 1>>, <<55352, 57068, 57071, 1>>,
       <<55353, 56555, 56559, 1>>, <<55353, 56814, 56815, 1>>, <<55353, 57059, 57059, 1>>, <<55353, 57062, 57062, 1>>,
       <<55353, 57070, 57071, 1>>, <<55353, 57077, 57077, 1>>, <<55353, 57087, 57087, 1>>, <<55354, 56528, 56534, 1>>,
       <<55354, 56644, 56651, 1>>, <<55356, 57339, 57343, 1>>, <<56128, 56321, 56321, 1>>, <<56128, 56352, 56447, 1>>,
       <<56128, 56576, 56815, 1>>
    >>

\* what the non-ASCII character i of s becomes under a case mapping
CaseMapped(s, i, ranges, special, pairs) ==
    LET n == CodeUnit(s[i])
        sp == {k \in 1..Len(special) : special[k][1] = s[i]}
        rg == {k \in 1..Len(ranges) :
                 InSteps(n, ranges[k][1], ranges[k][2], ranges[k][3])}
        pr == IF SecondOfPair(s, i)
              THEN {k \in 1..Len(pairs) :
                      /\ pairs[k][1] = CodeUnit(s[i - 1])
                      /\ InSteps(n, pairs[k][2], pairs[k][3], pairs[k][4])}
              ELSE {}
    IN  IF sp # {} THEN special[CHOOSE k \in sp : TRUE][2]
        ELSE IF rg # {} THEN <<Token(n + ranges[CHOOSE k \in rg : TRUE][4])>>
        ELSE IF pr # {} THEN <<Token(n + pairs[CHOOSE k \in pr : TRUE][5])>>
        ELSE <<s[i]>>

\* character i of s, or the surrogate pair it is half of, has the property
HasProperty(s, i, ascii, ranges, pairs) ==
    IF IsAscii(s[i]) THEN s[i] \in ascii
    ELSE IF SecondOfPair(s, i)
    THEN \E k \in 1..Len(pairs) :
             /\ pairs[k][1] = CodeUnit(s[i - 1])
             /\ InSteps(CodeUnit(s[i]), pairs[k][2], pairs[k][3], pairs[k][4])
    ELSE IF FirstOfPair(s, i)
    THEN \E k \in 1..Len(pairs) :
             /\ pairs[k][1] = CodeUnit(s[i])
             /\ InSteps(CodeUnit(s[i + 1]), pairs[k][2], pairs[k][3], pairs[k][4])
    ELSE \E k \in 1..Len(ranges) :
             InSteps(CodeUnit(s[i]), ranges[k][1], ranges[k][2], ranges[k][3])

\* cased, and not case-ignorable
IsCased(s, i) == HasProperty(s, i, LetterChars, CasedRanges, CasedPairs)

\* (of the ASCII characters these and the grave accent, which no string here holds)
IsCaseIgnorable(s, i) ==
    HasProperty(s, i, {"'", ".", ":", "^"}, CaseIgnorableRanges, CaseIgnorablePairs)

\* the capital sigma at i ends a word: a cased letter stands before it and none after
\* it, case-ignorable characters in between aside
FinalSigma(s, i) ==
    /\ \E j \in 1..(i - 1) :
           IsCased(s, j) /\ \A k \in (j + 1)..(i - 1) : IsCaseIgnorable(s, k)
    /\ ~\E j \in (i + 1)..Len(s) :
           IsCased(s, j) /\ \A k \in (i + 1)..(j - 1) : IsCaseIgnorable(s, k)

\* what character i of s becomes in s.toLowerCase()
LowerAt(s, i) ==
    IF IsAscii(s[i]) THEN <<ToLowerChar(s[i])>>
    ELSE IF s[i] = "U+03A3" /\ FinalSigma(s, i) THEN <<"U+03C2">>
    ELSE CaseMapped(s, i, LowerRanges, LowerSpecial, LowerPairs)

RECURSIVE LowerIn(_, _, _)
\* characters lo..hi of s in s.toLowerCase()
LowerIn(s, lo, hi) ==
    IF lo > hi THEN <<>>
    ELSE IF lo = hi THEN LowerAt(s, lo)
    ELSE LET mid == (lo + hi) \div 2
         IN  LowerIn(s, lo, mid) \o LowerIn(s, mid + 1, hi)

\* String.prototype.toLowerCase
ToLowerCase(s) ==
    IF \A i \in 1..Len(s) : IsAscii(s[i])
    THEN [i \in 1..Len(s) |-> ToLowerChar(s[i])]
    ELSE LowerIn(s, 1, Len(s))

(***************************************************************************)
(* Character classes of the regular expressions of the source, by name.    *)
(***************************************************************************)
InClass(cls, c) ==
    CASE cls = "digit"       -> c \in DigitChars
      [] cls = "space"       -> c \in SpaceChars
      [] cls = "nonspace"    -> c \notin SpaceChars
      [] cls = "upper"       -> c \in UpperChars
      [] cls = "sep"         -> c \in SpaceChars \cup {"-", "."}
      [] cls = "plus"        -> c = "+"
      [] cls = "lparen"      -> c = "("
      [] cls = "rparen"      -> c = ")"
      [] cls = "at"          -> c = "@"
      [] cls = "dot"         -> c = "."
      [] cls = "emailLocal"  -> c \in LetterChars \cup DigitChars \cup {".", "_", "%", "+", "-"}
      [] cls = "emailDomain" -> c \in LetterChars \cup DigitChars \cup {".", "-"}
      [] cls = "emailTld"    -> c \in LetterChars \cup {"|"}
      [] cls = "dash"        -> c \in UnicodeDashes
      [] cls = "edgeJunk"    -> c \notin LetterChars \cup DigitChars \cup SpaceChars
                                          \cup {"@", ".", "+", "-", ","}
      [] cls = "garbage"     -> c \in {"{", "}", ">", "]", ")", "(", "_", "+", "=",
                                       "U+2022", "|", "\\", "/", "~"}
      [] cls = "mobileGarbage" -> c \in {"{", "}", ">", "]", ")", "(", "_", "+", "=",
                                         "U+00E2", "U+20AC", "U+00A2", "|", "\\", "/", "~"}
      [] cls = "dashUnder"   -> c \in {"-", "_"}
      [] cls = "nonAscii"    -> ~IsAscii(c)
      [] cls = "notKept"     -> c \notin WordChars \cup SpaceChars \cup {"@", ".", "+", ",", "-"}
      [] cls = "phoneStrip"  -> c \in SpaceChars \cup {"-", "."}
      [] OTHER               -> FALSE

(***************************************************************************)
(* A backtracking matcher with the priorities of the JavaScript engine: a  *)
(* quantified class is greedy, an alternative is tried in order.  A        *)
(* pattern is a sequence of alternatives, an alternative a sequence of     *)
(* items.  max = -1 is an unbounded quantifier.                            *)
(***************************************************************************)
Cls(c, lo, hi) ==
    [kind |-> "cls", cls |-> c, min |-> lo, max |-> hi, str |-> <<>>, ci |-> FALSE]

WordB == [kind |-> "wb", cls |-> "", min |-> 0, max |-> 0, str |-> <<>>, ci |-> FALSE]

\* a literal
Lit(str) ==
    [kind |-> "lit", cls |-> "", min |-> 0, max |-> 0, str |-> Chars(str), ci |-> FALSE]

\* a literal matched without regard to case (the i flag)
LitI(str) ==
    [kind |-> "lit", cls |-> "", min |-> 0, max |-> 0, str |-> Chars(str), ci |-> TRUE]

IsWordAt(s, i) == i >= 1 /\ i <= Len(s) /\ s[i] \in WordChars

\* \b at offset p
AtWordBoundary(s, p) == IsWordAt(s, p) # IsWordAt(s, p + 1)

\* how many characters from offset p on are in the class, cap at most (cap < 0: no cap)
RunLen(s, p, cls, cap) ==
    LET limit == IF cap < 0 \/ cap > Len(s) - p THEN Len(s) - p ELSE cap
    IN  IF limit <= 0 THEN 0
        ELSE CHOOSE r \in 0..limit :
                 /\ r = limit \/ ~InClass(cls, s[p + r + 1])
                 /\ \A i \in 1..r : InClass(cls, s[p + i])

\* how many characters before offset p are in the class
TrailLen(s, p, cls) ==
    IF p <= 0 THEN 0
    ELSE CHOOSE r \in 0..p :
             /\ r = p \/ ~InClass(cls, s[p - r])
             /\ \A i \in 0..(r - 1) : InClass(cls, s[p - i])

LitAt(s, p, str, ci) ==
    /\ p + Len(str) <= Len(s)
    /\ \A i \in 1..Len(str) :
           IF ci THEN ToLowerChar(s[p + i]) = ToLowerChar(str[i]) ELSE s[p + i] = str[i]

RECURSIVE MatchItems(_, _, _, _)
RECURSIVE TryCount(_, _, _, _, _)
\* items k.. of the alternative matched at offset p: the end offset of the first
\* match in backtracking order, -1 if there is none
MatchItems(items, k, s, p) ==
    IF k > Len(items) THEN p
    ELSE LET it == items[k] IN
         CASE it.kind = "wb"  -> IF AtWordBoundary(s, p) THEN MatchItems(items, k + 1, s, p) ELSE -1
           [] it.kind = "lit" -> IF LitAt(s, p, it.str, it.ci)
                                 THEN MatchItems(items, k + 1, s, p + Len(it.str)) ELSE -1
           [] OTHER           -> TryCount(items, k, s, p, RunLen(s, p, it.cls, it.max))

TryCount(items, k, s, p, n) ==
    IF n < items[k].min THEN -1
    ELSE LET e == MatchItems(items, k + 1, s, p + n)
         IN  IF e # -1 THEN e ELSE TryCount(items, k, s, p, n - 1)

RECURSIVE MatchAlts(_, _, _, _)
MatchAlts(alts, a, s, p) ==
    IF a > Len(alts) THEN -1
    ELSE LET e == MatchItems(alts[a], 1, s, p)
         IN  IF e # -1 THEN e ELSE MatchAlts(alts, a + 1, s, p)

NoMatch == [index |-> -1, end |-> -1]

RECURSIVE ExecIn(_, _, _, _)
\* the leftmost match starting at an offset in lo..hi
ExecIn(re, s, lo, hi) ==
    IF lo > hi THEN NoMatch
    ELSE IF lo = hi
    THEN LET e == MatchAlts(re, 1, s, lo)
         IN  IF e # -1 THEN [index |-> lo, end |-> e] ELSE NoMatch
    ELSE LET mid  == (lo + hi) \div 2
             left == ExecIn(re, s, lo, mid)
         IN  IF left.index # -1 THEN left ELSE ExecIn(re, s, mid + 1, hi)

\* the leftmost match starting at offset >= from
Exec(re, s, from) == ExecIn(re, s, from, Len(s))

\* RegExp.prototype.test of a regular expression without the g flag
Test(re, s) == Exec(re, s, 0).index # -1

\* RegExp.prototype.test of a regular expression with the g flag: the search starts
\* at lastIndex, a match leaves lastIndex at its end and a failure resets it to 0
TestG(re, s, lastIndex) ==
    LET m == IF lastIndex > Len(s) THEN NoMatch ELSE Exec(re, s, lastIndex)
    IN  [ok |-> m.index # -1, lastIndex |-> IF m.index # -1 THEN m.end ELSE 0]

\* String.prototype.search: the offset of the first match or -1; lastIndex is kept
Search(re, s) == Exec(re, s, 0).index

\* String.prototype.includes
Includes(s, str) == \E p \in 0..(Len(s) - Len(str)) : SubSeq(s, p + 1, p + Len(str)) = Chars(str)

(***************************************************************************)
(* OCRProcessor.patterns (the constructor)                                 *)
(***************************************************************************)
\* /\b[A-Za-z0-9._%+-]+@[A-Za-z0-9.-]+\.[A-Z|a-z]{2,}\b/g
EmailPattern ==
    << <<WordB, Cls("emailLocal", 1, -1), Cls("at", 1, 1), Cls("emailDomain", 1, -1),
         Cls("dot", 1, 1), Cls("emailTld", 2, -1), WordB>> >>

\* \(?\d{3}\)?[\s\-\.]?\d{3}[\s\-\.]?\d{4}
PhoneCore ==
    <<Cls("lparen", 0, 1), Cls("digit", 3, 3), Cls("rparen", 0, 1), Cls("sep", 0, 1),
      Cls("digit", 3, 3), Cls("sep", 0, 1), Cls("digit", 4, 4)>>

\* /(\+?\d{1,3}[\s\-\.]?)?\(?\d{3}\)?[\s\-\.]?\d{3}[\s\-\.]?\d{4}/g: the optional
\* group is tried before its omission
PhonePattern ==
    << <<Cls("plus", 0, 1), Cls("digit", 1, 3), Cls("sep", 0, 1)>> \o PhoneCore,
       PhoneCore >>

\* \(?\d{2,4}\)?[\s\-\.]?\d{2,4}[\s\-\.]?\d{2,4}[\s\-\.]?\d{0,4}
PhoneAltCore ==
    <<Cls("lparen", 0, 1), Cls("digit", 2, 4), Cls("rparen", 0, 1), Cls("sep", 0, 1),
      Cls("digit", 2, 4), Cls("sep", 0, 1), Cls("digit", 2, 4), Cls("sep", 0, 1),
      Cls("digit", 0, 4)>>

\* /(\+?\d{1,4}[\s\-\.]?)?\(?\d{2,4}\)?[\s\-\.]?\d{2,4}[\s\-\.]?\d{2,4}[\s\-\.]?\d{0,4}/g
PhoneAltPattern ==
    << <<Cls("plus", 0, 1), Cls("digit", 1, 4), Cls("sep", 0, 1)>> \o PhoneAltCore,
       PhoneAltCore >>

\* /https?:\/\/[^\s]+/g
UrlPattern ==
    << <<Lit("https://"), Cls("nonspace", 1, -1)>>,
       <<Lit("http://"), Cls("nonspace", 1, -1)>> >>

(***************************************************************************)
(* OCRProcessor.cleanText                                                  *)
(***************************************************************************)
\* what character i of s contributes to s.replace(/[cls]{minRun,}/g, repl): itself,
\* or, in a maximal run of at least minRun characters of the class, repl if it
\* starts the run and nothing otherwise
ReplacedPiece(s, i, cls, minRun, repl) ==
    LET back == TrailLen(s, i - 1, cls)
    IN  IF InClass(cls, s[i]) /\ back + RunLen(s, i - 1, cls, -1) >= minRun
        THEN IF back = 0 THEN repl ELSE <<>>
        ELSE <<s[i]>>

RECURSIVE ReplaceIn(_, _, _, _, _, _)
\* the pieces of characters lo..hi, in order
ReplaceIn(s, lo, hi, cls, minRun, repl) ==
    IF lo > hi THEN <<>>
    ELSE IF lo = hi THEN ReplacedPiece(s, lo, cls, minRun, repl)
    ELSE LET mid == (lo + hi) \div 2
         IN  ReplaceIn(s, lo, mid, cls, minRun, repl) \o ReplaceIn(s, mid + 1, hi, cls, minRun, repl)

\* s.replace(/[cls]{minRun,}/g, repl)
ReplaceRuns(s, cls, minRun, repl) == ReplaceIn(s, 1, Len(s), cls, minRun, repl)

\* s.replace(/[cls]/g, repl), one character at a time
ReplaceEach(s, cls, c) == [i \in 1..Len(s) |-> IF InClass(cls, s[i]) THEN c ELSE s[i]]

\* s.replace(/^[cls]+|[cls]+$/g, ''): the leading run and the trailing run go
StripEdges(s, cls) ==
    LET lead == RunLen(s, 0, cls, -1)
        trail == IF lead = Len(s) THEN 0 ELSE TrailLen(s, Len(s), cls)
    IN  SubSeq(s, lead + 1, Len(s) - trail)

\* String.prototype.trim
Trim(s) == StripEdges(s, "space")

NormalizeDashes(s) == ReplaceEach(s, "dash", "-")

StripEdgeJunk(s) == StripEdges(s, "edgeJunk")

ReplaceGarbage(s) == ReplaceRuns(s, "garbage", 1, <<" ">>)

CollapseDashes(s) == ReplaceRuns(s, "dashUnder", 2, <<" ">>)

CollapseSpaces(s) == ReplaceRuns(s, "space", 2, <<" ">>)

ReplaceNonAscii(s) == ReplaceRuns(s, "nonAscii", 1, <<" ">>)

ReplaceNotKept(s) == ReplaceEach(s, "notKept", " ")

\* a last step that leaves the runs of whitespace as they are
KeepSpaces(s) == s

CollapseSpacesAgain(s) == ReplaceRuns(s, "space", 2, <<" ">>)

\* cleanText of a string; '' for the empty string (!text)
cleanText(text) ==
    IF Len(text) = 0 THEN <<>>
    ELSE Trim(CollapseSpacesAgain(ReplaceNotKept(ReplaceNonAscii(CollapseSpaces(
           CollapseDashes(ReplaceGarbage(StripEdgeJunk(NormalizeDashes(text)))))))))

(***************************************************************************)
(* OCRProcessor.classifyLine.  The four patterns of the instance carry the *)
(* g flag, so their test() reads and writes the pattern's lastIndex: li is *)
(* the record of the four lastIndex values, and is returned updated.       *)
(***************************************************************************)
\* /\d{7,}/
SevenDigits == << <<Cls("digit", 7, -1)>> >>

\* /\b[A-Z]{2}\s+\d{5}\b/
StateZip == << <<WordB, Cls("upper", 2, 2), Cls("space", 1, -1), Cls("digit", 5, 5), WordB>> >>

\* /\b\d{5}\b/
FiveDigits == << <<WordB, Cls("digit", 5, 5), WordB>> >>

StreetWords ==
    <<"street", "st", "avenue", "ave", "road", "rd", "boulevard", "blvd", "drive", "dr",
      "lane", "ln", "way", "circle", "ct">>

\* /\b(street|st|avenue|ave|road|rd|boulevard|blvd|drive|dr|lane|ln|way|circle|ct)\b/i
StreetPattern == [i \in 1..Len(StreetWords) |-> <<WordB, LitI(StreetWords[i]), WordB>>]

companyPatterns ==
    <<"inc", "ltd", "llc", "corp", "pvt", "limited", "incorporated", "company", "co.",
      "group", "solutions", "systems", "services", "agency">>

titleKeywords ==
    <<"agent", "manager", "director", "executive", "president", "ceo", "cfo", "cto", "vp",
      "vice president", "specialist", "consultant", "advisor", "representative",
      "assistant", "coordinator">>

\* keywords.some(k => lowerLine.includes(k))
IncludesAny(lowerLine, keywords) == \E i \in 1..Len(keywords) : Includes(lowerLine, keywords[i])

RECURSIVE WordsFrom(_, _)
\* line.split(/\s+/).filter(w => w.length > 0), from offset p on
WordsFrom(line, p) ==
    IF p >= Len(line) THEN <<>>
    ELSE LET sp == RunLen(line, p, "space", -1)
             w  == RunLen(line, p + sp, "nonspace", -1)
         IN  IF w = 0 THEN <<>>
             ELSE <<SubSeq(line, p + sp + 1, p + sp + w)>> \o WordsFrom(line, p + sp + w)

Words(line) == WordsFrom(line, 0)

Classification(type, confidence, line, li) ==
    [type |-> type, confidence |-> confidence, original |-> line, lastIndex |-> li]

\* the rules after the website rule: they read no lastIndex
classifyRest(line, li) ==
    LET lowerLine == ToLowerCase(line)
        words == Words(line)
        hasTwoWords == Len(words) = 2
        allWordsCapitalized == \A i \in 1..Len(words) : words[i][1] \in UpperChars
        noNumbers == \A i \in 1..Len(line) : line[i] \notin DigitChars
        reasonableLength == Len(line) >= 3 /\ Len(line) <= 40
    IN  IF Test(StateZip, line) \/ Test(FiveDigits, line) \/ Test(StreetPattern, line)
        THEN Classification("address", 8, line, li)
        ELSE IF IncludesAny(lowerLine, companyPatterns)
        THEN Classification("company", 10, line, li)
        ELSE IF IncludesAny(lowerLine, titleKeywords)
        THEN IF Includes(lowerLine, "real estate") \/ Includes(lowerLine, "realestate")
             THEN Classification("company", 8, line, li)
             ELSE Classification("title", 7, line, li)
        ELSE IF hasTwoWords /\ allWordsCapitalized /\ noNumbers /\ reasonableLength
        THEN Classification("name", 9, line, li)
        ELSE IF Len(words) >= 2 /\ allWordsCapitalized /\ noNumbers /\ reasonableLength
        THEN Classification("name_or_company", 6, line, li)
        ELSE Classification("unknown", 0, line, li)

\* a test() the || before it made unnecessary leaves lastIndex alone
Skipped(lastIndex) == [ok |-> TRUE, lastIndex |-> lastIndex]

\* the website rule, u being the outcome of this.patterns.url.test(line)
ClassifyAfterUrl(line, li, u) ==
    IF \/ u.ok
       \/ Includes(ToLowerCase(line), "www.") \/ Includes(ToLowerCase(line), ".com")
       \/ Includes(ToLowerCase(line), ".net") \/ Includes(ToLowerCase(line), ".org")
    THEN Classification("website", 9, line, [li EXCEPT !.url = u.lastIndex])
    ELSE classifyRest(line, [li EXCEPT !.url = u.lastIndex])

\* the phone rule, ph and pa being the outcomes of the tests of phone and phoneAlt
ClassifyAfterPhoneAlt(line, li, ph, pa) ==
    IF pa.ok
    THEN Classification("phone", 10, line,
                        [li EXCEPT !.phone = ph.lastIndex, !.phoneAlt = pa.lastIndex])
    ELSE ClassifyAfterUrl(line,
                          [li EXCEPT !.phone = ph.lastIndex, !.phoneAlt = pa.lastIndex],
                          TestG(UrlPattern, line, li.url))

\* ... || this.patterns.phoneAlt.test(line), tested only when nothing before it held
ClassifyAfterPhone(line, li, ph) ==
    ClassifyAfterPhoneAlt(line, li, ph,
                          IF ph.ok THEN Skipped(li.phoneAlt)
                          ELSE TestG(PhoneAltPattern, line, li.phoneAlt))

\* the email rule, em being the outcome of line.includes('@') || email.test(line)
ClassifyAfterEmail(line, li, em) ==
    IF em.ok THEN Classification("email", 10, line, [li EXCEPT !.email = em.lastIndex])
    ELSE ClassifyAfterPhone(line, [li EXCEPT !.email = em.lastIndex],
                            IF Includes(line, "+") \/ Test(SevenDigits, line)
                            THEN Skipped(li.phone)
                            ELSE TestG(PhonePattern, line, li.phone))

\* classifyLine(line) on an instance whose patterns have the lastIndex values li
classifyLine(line, li) ==
    ClassifyAfterEmail(line, li,
                       IF Includes(line, "@") THEN Skipped(li.email)
                       ELSE TestG(EmailPattern, line, li.email))

RECURSIVE classifyLines(_, _, _)
\* the classification c of line k, before those of the lines after it
ClassifyFrom(lines, k, c, rest) ==
    [classified |-> <<[type |-> c.type, confidence |-> c.confidence,
                       original |-> c.original]>> \o rest.classified,
     lastIndex  |-> rest.lastIndex]

\* line k classified, then the lines after it with the lastIndex values it left
ClassifyNext(lines, k, c) == ClassifyFrom(lines, k, c, classifyLines(lines, k + 1, c.lastIndex))

\* lines.map(line => this.classifyLine(line)): the lines from k on, in order, each
\* with the lastIndex values its predecessor left
classifyLines(lines, k, li) ==
    IF k > Len(lines) THEN [classified |-> <<>>, lastIndex |-> li]
    ELSE ClassifyNext(lines, k, classifyLine(lines[k], li))

(***************************************************************************)
(* OCRProcessor.extractContactInfo                                         *)
(***************************************************************************)
\* JavaScript values an argument can be
Str(s) == [t |-> "string", v |-> s]

Undefined == [t |-> "undefined", v |-> <<>>]

Null == [t |-> "null", v |-> <<>>]

\* a number, v being String(number): "0" for 0 and for -0, "NaN" for NaN
Num(digits) == [t |-> "number", v |-> Chars(digits)]

Bool(b) == [t |-> "boolean", v |-> IF b THEN Chars("true") ELSE Chars("false")]

\* !text: true of undefined, null, '', 0, NaN and false
Falsy(text) ==
    \/ text.t \in {"undefined", "null"}
    \/ text.t = "string" /\ Len(text.v) = 0
    \/ text.t = "number" /\ text.v \in {Chars("0"), Chars("NaN")}
    \/ text.t = "boolean" /\ text.v = Chars("false")

\* text.replace(...) of a value that is no string: TypeError, text.replace is not a function
NoReplaceMethod(text) == text.t # "string"

EmptyContact == [name |-> <<>>, phone |-> <<>>, email |-> <<>>, company |-> <<>>]

FreshLastIndex == [email |-> 0, phone |-> 0, phoneAlt |-> 0, url |-> 0]

\* the length a single line must exceed to be split again
SingleLineMinLength == 50

RECURSIVE NewlinesIn(_, _, _)
\* the positions of the "\n" among characters lo..hi, in order
NewlinesIn(s, lo, hi) ==
    IF lo > hi THEN <<>>
    ELSE IF lo = hi THEN IF s[lo] = "\n" THEN <<lo>> ELSE <<>>
    ELSE LET mid == (lo + hi) \div 2
         IN  NewlinesIn(s, lo, mid) \o NewlinesIn(s, mid + 1, hi)

\* s.split(/\r?\n/): a separator is a "\n" with the "\r" before it, if any
SplitLines(s) ==
    LET nl == NewlinesIn(s, 1, Len(s))
        first(k) == IF k = 1 THEN 1 ELSE nl[k - 1] + 1
        last(k)  == IF k > Len(nl) THEN Len(s)
                    ELSE IF nl[k] > first(k) /\ s[nl[k] - 1] = "\r" THEN nl[k] - 2
                    ELSE nl[k] - 1
    IN  [k \in 1..(Len(nl) + 1) |-> SubSeq(s, first(k), last(k))]

\* cleanedText.split(/\r?\n/).map(line => this.cleanText(line.trim()))
\*            .filter(line => line.length > 0)
CleanedLines(cleanedText) ==
    LET parts == SplitLines(cleanedText)
        mapped == [i \in 1..Len(parts) |-> cleanText(Trim(parts[i]))]
    IN  SelectSeq(mapped, LAMBDA line : Len(line) > 0)

\* cleanedText.match(pattern) of a pattern with the g flag: every match, or null;
\* only element 0 is read.  The call leaves the pattern's lastIndex at 0.
FirstMatch(re, s) == Exec(re, s, 0)

\* a guard that takes every result of match() for a match
AlwaysMatched(m) == TRUE

\* match && match.length > 0
HasMatch(m) == m.index # -1

MatchText(s, m) == SubSeq(s, m.index + 1, m.end)

\* /\+\d/
PlusDigit == << <<Cls("plus", 1, 1), Cls("digit", 1, 1)>> >>

\* /www\./i
WwwDot == << <<LitI("www.")>> >>

RECURSIVE SegmentsToTheEnd(_, _, _, _)
\* a forEach whose segments each run to the end of the line
SegmentsToTheEnd(singleLine, splits, k, lastPos) ==
    IF k > Len(splits)
    THEN LET remaining == Trim(SubSeq(singleLine, lastPos + 1, Len(singleLine)))
         IN  IF lastPos < Len(singleLine) /\ Len(remaining) > 0 THEN <<remaining>> ELSE <<>>
    ELSE LET segment == Trim(SubSeq(singleLine, lastPos + 1, Len(singleLine)))
         IN  (IF splits[k] > lastPos /\ Len(segment) > 0 THEN <<segment>> ELSE <<>>)
             \o SegmentsToTheEnd(singleLine, splits, k + 1, splits[k])

RECURSIVE Segments(_, _, _, _)
\* potentialSplits.forEach(...) from split k on, then the remaining text
Segments(singleLine, splits, k, lastPos) ==
    IF k > Len(splits)
    THEN LET remaining == Trim(SubSeq(singleLine, lastPos + 1, Len(singleLine)))
         IN  IF lastPos < Len(singleLine) /\ Len(remaining) > 0 THEN <<remaining>> ELSE <<>>
    ELSE LET segment == Trim(SubSeq(singleLine, lastPos + 1, splits[k]))
         IN  (IF splits[k] > lastPos /\ Len(segment) > 0 THEN <<segment>> ELSE <<>>)
             \o Segments(singleLine, splits, k + 1, splits[k])

\* the segments in place of the line, if there are at least two
ReplaceBySegments(lines, potentialSplits, newLines) ==
    IF Len(potentialSplits) > 0 /\ Len(newLines) > 1
    THEN [i \in 1..Len(newLines) |-> cleanText(newLines[i])]
    ELSE lines

\* the line cut at the sorted offsets
SplitAt(lines, potentialSplits) ==
    ReplaceBySegments(lines, potentialSplits, Segments(lines[1], potentialSplits, 1, 0))

\* the offsets found, sorted
SortSplits(lines, emailPos, phonePos, websitePos) ==
    SplitAt(lines, SortSeq(SelectSeq(<<emailPos, phonePos, websitePos>>, LAMBDA x : x # -1),
                           LAMBDA a, b : a < b))

\* search(first) !== -1 ? search(first) : search(second)
SearchEither(first, second, singleLine) ==
    IF Search(first, singleLine) # -1 THEN Search(first, singleLine)
    ELSE Search(second, singleLine)

\* the single long line cut at the offsets of its email, phone and website
SplitSingleLine(lines) ==
    IF Len(lines) = 1 /\ Len(lines[1]) > SingleLineMinLength
    THEN SortSplits(lines, Search(EmailPattern, lines[1]),
                    SearchEither(PhonePattern, PlusDigit, lines[1]),
                    SearchEither(UrlPattern, WwwDot, lines[1]))
    ELSE lines

\* a resolution that takes the topmost 'name_or_company' line before any 'name' line
PreferNameOrCompany(classifiedLines) ==
    LET nameLines == SelectSeq(classifiedLines, LAMBDA cl : cl.type = "name")
        nameOrCompanyLines == SelectSeq(classifiedLines,
                                  LAMBDA cl : cl.type = "name_or_company")
    IN  IF Len(nameOrCompanyLines) > 0 THEN cleanText(nameOrCompanyLines[1].original)
        ELSE IF Len(nameLines) > 0 THEN cleanText(nameLines[1].original)
        ELSE <<>>

\* the name: the topmost 'name' line, else the topmost 'name_or_company' line
ResolveName(classifiedLines) ==
    LET nameLines == SelectSeq(classifiedLines,
                         LAMBDA cl : cl.type = "name" /\ cl.confidence >= 9)
        nameOrCompanyLines == SelectSeq(classifiedLines,
                         LAMBDA cl : cl.type = "name_or_company" /\ cl.confidence >= 6)
    IN  IF Len(nameLines) > 0 THEN cleanText(nameLines[1].original)
        ELSE IF Len(nameOrCompanyLines) > 0 THEN cleanText(nameOrCompanyLines[1].original)
        ELSE <<>>

\* a choice that takes the topmost candidate, company or title
FirstCandidate(companyLines) == companyLines[1]

\* a choice that takes the candidate of the highest confidence, the topmost of them
MostConfident(companyLines) ==
    companyLines[CHOOSE i \in 1..Len(companyLines) :
                     \A j \in 1..Len(companyLines) :
                         /\ companyLines[i].confidence >= companyLines[j].confidence
                         /\ companyLines[i].confidence = companyLines[j].confidence => i <= j]

\* companyLines.find(cl => cl.type === 'company') || companyLines[0]
PreferCompany(companyLines) ==
    LET companies == SelectSeq(companyLines, LAMBDA cl : cl.type = "company")
    IN  IF Len(companies) > 0 THEN companies[1] ELSE companyLines[1]

\* a company that falls back on any name_or_company line, the line of the name included
ResolveCompanyFromAnyLine(classifiedLines, name) ==
    LET companyLines == SelectSeq(classifiedLines,
                            LAMBDA cl : \/ cl.type = "company" /\ cl.confidence >= 8
                                        \/ cl.type = "title" /\ cl.confidence >= 7)
        remainingNameOrCompany == SelectSeq(classifiedLines,
                            LAMBDA cl : cl.type = "name_or_company" /\ cl.confidence >= 6)
    IN  IF Len(companyLines) > 0 THEN cleanText(PreferCompany(companyLines).original)
        ELSE IF Len(remainingNameOrCompany) > 0
        THEN cleanText(remainingNameOrCompany[1].original)
        ELSE <<>>

\* the company: a 'company' line, else a 'title' line, else another name_or_company line
ResolveCompany(classifiedLines, name) ==
    LET companyLines == SelectSeq(classifiedLines,
                            LAMBDA cl : \/ cl.type = "company" /\ cl.confidence >= 8
                                        \/ cl.type = "title" /\ cl.confidence >= 7)
        remainingNameOrCompany == SelectSeq(classifiedLines,
                            LAMBDA cl : /\ cl.type = "name_or_company"
                                        /\ cl.original # name
                                        /\ cl.confidence >= 6)
    IN  IF Len(companyLines) > 0 THEN cleanText(PreferCompany(companyLines).original)
        ELSE IF Len(remainingNameOrCompany) > 0
        THEN cleanText(remainingNameOrCompany[1].original)
        ELSE <<>>

\* OCRProcessor.normalizeFields
normalizeFields(contact, classifiedLines) ==
    LET titleLines == SelectSeq(classifiedLines,
                          LAMBDA cl : \/ cl.type = "title"
                                      \/ cl.type = "company" /\ cl.confidence >= 7)
    IN  IF Len(Trim(contact.company)) = 0 /\ Len(titleLines) > 0
        THEN [contact EXCEPT !.company = cleanText(titleLines[1].original)]
        ELSE contact

\* a cleanup that leaves the separators in
KeepSeparators(phone) == phone

\* phone.replace(/[\s\-\.]/g, '')
StripSeparators(phone) == SelectSeq(phone, LAMBDA c : ~InClass("phoneStrip", c))

\* phone.replace(/^\+?1/, '')
StripLeadingOne(phone) ==
    IF Len(phone) >= 2 /\ phone[1] = "+" /\ phone[2] = "1" THEN SubSeq(phone, 3, Len(phone))
    ELSE IF Len(phone) >= 1 /\ phone[1] = "1" THEN SubSeq(phone, 2, Len(phone))
    ELSE phone

\* contact.phone ? contact.phone.replace(/[\s\-\.]/g, '').replace(/^\+?1/, '') : ''
NormalizePhone(phone) == StripLeadingOne(StripSeparators(phone))

\* the final cleanup of the fields, and what the call leaves behind
FinishContact(contact, cls) ==
    [threw |-> FALSE,
     contact |-> [name    |-> cleanText(contact.name),
                  phone   |-> NormalizePhone(contact.phone),
                  email   |-> ToLowerCase(Trim(contact.email)),
                  company |-> cleanText(contact.company)],
     classified |-> cls.classified,
     lastIndex |-> cls.lastIndex]

\* the company, once the name is known, and normalizeFields
ResolveWithName(email, phone, name, cls) ==
    FinishContact(normalizeFields([name |-> name, phone |-> phone, email |-> email,
                                   company |-> ResolveCompany(cls.classified, name)],
                                  cls.classified),
                  cls)

\* the name, the company and the cleanup, from the classified lines cls
ResolveFields(email, phone, cls) ==
    ResolveWithName(email, phone, ResolveName(cls.classified), cls)

\* cleanedText.match(this.patterns.phone) || cleanedText.match(this.patterns.phoneAlt)
PhoneMatches(cleanedText) ==
    LET first == FirstMatch(PhonePattern, cleanedText)
    IN  [first |-> first,
         match |-> IF first.index # -1 THEN first
                   ELSE FirstMatch(PhoneAltPattern, cleanedText)]

\* the email and the phone of the matches, then the lines
ExtractLines(cleanedText, emailMatch, phoneMatches, li) ==
    LET phoneMatch == phoneMatches.match
        \* match() of a g pattern leaves its lastIndex at 0; phoneAlt is matched
        \* only when phone found nothing
        li0 == [li EXCEPT !.email = 0, !.phone = 0,
                          !.phoneAlt = IF phoneMatches.first.index # -1 THEN @ ELSE 0]
        \* emailMatch[0], phoneMatch[0]: reading element 0 of null is a TypeError
        threw == \/ HasMatch(emailMatch) /\ emailMatch.index = -1
                 \/ HasMatch(phoneMatch) /\ phoneMatch.index = -1
        email == IF HasMatch(emailMatch) /\ emailMatch.index # -1
                 THEN ToLowerCase(Trim(MatchText(cleanedText, emailMatch))) ELSE <<>>
        phone == IF HasMatch(phoneMatch) /\ phoneMatch.index # -1
                 THEN Trim(MatchText(cleanedText, phoneMatch)) ELSE <<>>
    IN  IF threw
        THEN [threw |-> TRUE, contact |-> EmptyContact, classified |-> <<>>, lastIndex |-> li0]
        ELSE ResolveFields(email, phone,
                 classifyLines(SplitSingleLine(CleanedLines(cleanedText)), 1, li0))

\* the matches of the email and phone patterns in the cleaned text
ExtractMatches(cleanedText, li) ==
    ExtractLines(cleanedText, FirstMatch(EmailPattern, cleanedText),
                 PhoneMatches(cleanedText), li)

\* extractContactInfo of a string that is not empty
extractFromString(text, li) == ExtractMatches(cleanText(text), li)

\* extractContactInfo(text) on an instance whose patterns have the lastIndex values li
extractContactInfo(text, li) ==
    IF Falsy(text)
    THEN [threw |-> FALSE, contact |-> EmptyContact, classified |-> <<>>, lastIndex |-> li]
    ELSE IF NoReplaceMethod(text)
    THEN [threw |-> TRUE, contact |-> EmptyContact, classified |-> <<>>, lastIndex |-> li]
    ELSE extractFromString(text.v, li)

(***************************************************************************)
(* ContactParser, the copy of the parser in the mobile app.  Its patterns  *)
(* and its classifyLine are those of OCRProcessor; its cleanText has other *)
(* characters in the garbage class, and every method that calls cleanText  *)
(* calls that one.                                                         *)
(***************************************************************************)
\* .replace(/[{}>\])(_+=...|\\/~]+/g, ' '), the class as the mobile source file has it
MobileReplaceGarbage(s) == ReplaceRuns(s, "mobileGarbage", 1, <<" ">>)

\* ContactParser.cleanText of a string
MobileCleanText(text) ==
    IF Len(text) = 0 THEN <<>>
    ELSE Trim(CollapseSpacesAgain(ReplaceNotKept(ReplaceNonAscii(CollapseSpaces(
           CollapseDashes(MobileReplaceGarbage(StripEdgeJunk(NormalizeDashes(text)))))))))

\* cleanedText.split(/\r?\n/).map(line => this.cleanText(line.trim()))
\*            .filter(line => line.length > 0)
MobileCleanedLines(cleanedText) ==
    LET parts == SplitLines(cleanedText)
        mapped == [i \in 1..Len(parts) |-> MobileCleanText(Trim(parts[i]))]
    IN  SelectSeq(mapped, LAMBDA line : Len(line) > 0)

\* the segments in place of the line, if there are at least two
MobileReplaceBySegments(lines, potentialSplits, newLines) ==
    IF Len(potentialSplits) > 0 /\ Len(newLines) > 1
    THEN [i \in 1..Len(newLines) |-> MobileCleanText(newLines[i])]
    ELSE lines

\* the line cut at the sorted offsets
MobileSplitAt(lines, potentialSplits) ==
    MobileReplaceBySegments(lines, potentialSplits,
                            Segments(lines[1], potentialSplits, 1, 0))

\* the single long line cut at the offsets of its email, phone and website
MobileSplitSingleLine(lines) ==
    IF Len(lines) = 1 /\ Len(lines[1]) > SingleLineMinLength
    THEN MobileSplitAt(lines,
             SortSeq(SelectSeq(<<Search(EmailPattern, lines[1]),
                                 SearchEither(PhonePattern, PlusDigit, lines[1]),
                                 SearchEither(UrlPattern, WwwDot, lines[1])>>,
                               LAMBDA x : x # -1),
                     LAMBDA a, b : a < b))
    ELSE lines

\* the name: the topmost 'name' line, else the topmost 'name_or_company' line
MobileResolveName(classifiedLines) ==
    LET nameLines == SelectSeq(classifiedLines,
                         LAMBDA cl : cl.type = "name" /\ cl.confidence >= 9)
        nameOrCompanyLines == SelectSeq(classifiedLines,
                         LAMBDA cl : cl.type = "name_or_company" /\ cl.confidence >= 6)
    IN  IF Len(nameLines) > 0 THEN MobileCleanText(nameLines[1].original)
        ELSE IF Len(nameOrCompanyLines) > 0
        THEN MobileCleanText(nameOrCompanyLines[1].original)
        ELSE <<>>

\* the company: a 'company' line, else a 'title' line, else another name_or_company line
MobileResolveCompany(classifiedLines, name) ==
    LET companyLines == SelectSeq(classifiedLines,
                            LAMBDA cl : \/ cl.type = "company" /\ cl.confidence >= 8
                                        \/ cl.type = "title" /\ cl.confidence >= 7)
        remainingNameOrCompany == SelectSeq(classifiedLines,
                            LAMBDA cl : /\ cl.type = "name_or_company"
                                        /\ cl.original # name
                                        /\ cl.confidence >= 6)
    IN  IF Len(companyLines) > 0 THEN MobileCleanText(PreferCompany(companyLines).original)
        ELSE IF Len(remainingNameOrCompany) > 0
        THEN MobileCleanText(remainingNameOrCompany[1].original)
        ELSE <<>>

\* ContactParser.normalizeFields
MobileNormalizeFields(contact, classifiedLines) ==
    LET titleLines == SelectSeq(classifiedLines,
                          LAMBDA cl : \/ cl.type = "title"
                                      \/ cl.type = "company" /\ cl.confidence >= 7)
    IN  IF Len(Trim(contact.company)) = 0 /\ Len(titleLines) > 0
        THEN [contact EXCEPT !.company = MobileCleanText(titleLines[1].original)]
        ELSE contact

\* the final cleanup of the fields: contact.phone.replace(/[\s\-\.]/g, '') and no more
MobileFinishContact(contact, cls) ==
    [threw |-> FALSE,
     contact |-> [name    |-> MobileCleanText(contact.name),
                  phone   |-> StripSeparators(contact.phone),
                  email   |-> ToLowerCase(Trim(contact.email)),
                  company |-> MobileCleanText(contact.company)],
     classified |-> cls.classified,
     lastIndex |-> cls.lastIndex]

\* the company, once the name is known, normalizeFields and the cleanup
MobileResolveFields(email, phone, name, cls) ==
    MobileFinishContact(
        MobileNormalizeFields([name |-> name, phone |-> phone, email |-> email,
                               company |-> MobileResolveCompany(cls.classified, name)],
                              cls.classified),
        cls)

\* the name and the other fields, from the classified lines cls
MobileResolveLines(email, phone, cls) ==
    MobileResolveFields(email, phone, MobileResolveName(cls.classified), cls)

\* the email and the phone of the matches, then the lines
MobileExtractLines(cleanedText, emailMatch, phoneMatches, li) ==
    LET phoneMatch == phoneMatches.match
        li0 == [li EXCEPT !.email = 0, !.phone = 0,
                          !.phoneAlt = IF phoneMatches.first.index # -1 THEN @ ELSE 0]
        threw == \/ HasMatch(emailMatch) /\ emailMatch.index = -1
                 \/ HasMatch(phoneMatch) /\ phoneMatch.index = -1
        email == IF HasMatch(emailMatch) /\ emailMatch.index # -1
                 THEN ToLowerCase(Trim(MatchText(cleanedText, emailMatch))) ELSE <<>>
        phone == IF HasMatch(phoneMatch) /\ phoneMatch.index # -1
                 THEN Trim(MatchText(cleanedText, phoneMatch)) ELSE <<>>
    IN  IF threw
        THEN [threw |-> TRUE, contact |-> EmptyContact, classified |-> <<>>, lastIndex |-> li0]
        ELSE MobileResolveLines(email, phone,
                 classifyLines(MobileSplitSingleLine(MobileCleanedLines(cleanedText)), 1, li0))

\* the matches of the email and phone patterns in the cleaned text
MobileExtractMatches(cleanedText, li) ==
    MobileExtractLines(cleanedText, FirstMatch(EmailPattern, cleanedText),
                       PhoneMatches(cleanedText), li)

\* contactParser.extractContactInfo(text) on an instance whose patterns have the
\* lastIndex values li
MobileExtractContactInfo(text, li) ==
    IF Falsy(text)
    THEN [threw |-> FALSE, contact |-> EmptyContact, classified |-> <<>>, lastIndex |-> li]
    ELSE IF NoReplaceMethod(text)
    THEN [threw |-> TRUE, contact |-> EmptyContact, classified |-> <<>>, lastIndex |-> li]
    ELSE MobileExtractMatches(MobileCleanText(text.v), li)

(***************************************************************************)
(* VCardHandler                                                            *)
(***************************************************************************)
UpperMap == [i \in 1..26 |-> SubSeq(UpperStr, i, i)]

LowerIndex == [c \in LowerChars |-> CHOOSE i \in 1..26 : SubSeq(LowerStr, i, i) = c]

\* String.prototype.toUpperCase of an ASCII character
ToUpperChar(c) == IF c \in LowerChars THEN UpperMap[LowerIndex[c]] ELSE c

\* what character i of s becomes in s.toUpperCase()
UpperAt(s, i) ==
    IF IsAscii(s[i]) THEN <<ToUpperChar(s[i])>>
    ELSE CaseMapped(s, i, UpperRanges, UpperSpecial, UpperPairs)

RECURSIVE UpperIn(_, _, _)
\* characters lo..hi of s in s.toUpperCase()
UpperIn(s, lo, hi) ==
    IF lo > hi THEN <<>>
    ELSE IF lo = hi THEN UpperAt(s, lo)
    ELSE LET mid == (lo + hi) \div 2
         IN  UpperIn(s, lo, mid) \o UpperIn(s, mid + 1, hi)

\* String.prototype.toUpperCase
ToUpperCase(s) ==
    IF \A i \in 1..Len(s) : IsAscii(s[i])
    THEN [i \in 1..Len(s) |-> ToUpperChar(s[i])]
    ELSE UpperIn(s, 1, Len(s))

RECURSIVE ExpandIn(_, _, _, _, _)
\* s.replace(/c/g, repl) for a single character c: characters lo..hi, in order
ExpandIn(s, lo, hi, c, repl) ==
    IF lo > hi THEN <<>>
    ELSE IF lo = hi THEN IF s[lo] = c THEN repl ELSE <<s[lo]>>
    ELSE LET mid == (lo + hi) \div 2
         IN  ExpandIn(s, lo, mid, c, repl) \o ExpandIn(s, mid + 1, hi, c, repl)

ReplaceChar(s, c, repl) == ExpandIn(s, 1, Len(s), c, repl)

\* an escape that leaves the value as it is
NoEscape(value) == value

\* VCardHandler.escape of a string
escape(value) ==
    IF Len(value) = 0 THEN <<>>
    ELSE ReplaceChar(ReplaceChar(ReplaceChar(ReplaceChar(ReplaceChar(value,
           "\\", <<"\\", "\\">>), ";", <<"\\", ";">>), ",", <<"\\", ",">>),
           "\n", <<"\\", "n">>), "\r", <<>>)

\* how many backslashes stand immediately before character i
BackslashesBefore(s, i) ==
    IF i <= 1 THEN 0
    ELSE CHOOSE r \in 0..(i - 1) :
             /\ r = i - 1 \/ s[i - 1 - r] # "\\"
             /\ \A k \in 1..r : s[i - k] = "\\"

\* what character i contributes to s.replace(/\\c/g, repl), c no backslash: the
\* matches cannot overlap, so every backslash followed by c is one
UnescapedPiece(s, i, c, repl) ==
    IF s[i] = "\\" /\ i < Len(s) /\ s[i + 1] = c THEN repl
    ELSE IF s[i] = c /\ i > 1 /\ s[i - 1] = "\\" THEN <<>>
    ELSE <<s[i]>>

\* what character i contributes to s.replace(/\\\\/g, '\\'): a run of backslashes is
\* matched in pairs from its left end
BackslashPiece(s, i) ==
    IF s[i] # "\\" THEN <<s[i]>>
    ELSE IF BackslashesBefore(s, i) % 2 = 1 THEN <<>>
    ELSE <<"\\">>

RECURSIVE UnescapeIn(_, _, _, _, _)
UnescapeIn(s, lo, hi, c, repl) ==
    IF lo > hi THEN <<>>
    ELSE IF lo = hi
    THEN IF c = "\\" THEN BackslashPiece(s, lo) ELSE UnescapedPiece(s, lo, c, repl)
    ELSE LET mid == (lo + hi) \div 2
         IN  UnescapeIn(s, lo, mid, c, repl) \o UnescapeIn(s, mid + 1, hi, c, repl)

\* s.replace(/\\c/g, repl)
ReplaceEscape(s, c, repl) == UnescapeIn(s, 1, Len(s), c, repl)

\* VCardHandler.unescape of a string
unescape(value) ==
    IF Len(value) = 0 THEN <<>>
    ELSE ReplaceEscape(ReplaceEscape(ReplaceEscape(ReplaceEscape(value,
           "n", <<"\n">>), ",", <<",">>), ";", <<";">>), "\\", <<"\\">>)

RECURSIVE JoinWith(_, _, _)
\* parts.slice(k - 1).join(sep)
JoinWith(parts, k, sep) ==
    IF k > Len(parts) THEN <<>>
    ELSE IF k = Len(parts) THEN parts[k]
    ELSE parts[k] \o sep \o JoinWith(parts, k + 1, sep)

\* contact.name.trim().split(/\s+/)
NameParts(name) == IF Len(Trim(name)) = 0 THEN << <<>> >> ELSE Words(Trim(name))

\* the FN and N lines of a name
NameLines(name) ==
    LET nameParts == NameParts(name)
        n == Len(nameParts)
    IN  << Chars("FN:") \o escape(name),
           IF n > 1
           THEN Chars("N:") \o escape(nameParts[n]) \o <<";">>
                \o escape(JoinWith(SubSeq(nameParts, 1, n - 1), 1, <<" ">>)) \o Chars(";;;")
           ELSE Chars("N:") \o escape(name) \o Chars(";;;") >>

\* contact.phone.replace(/[\s\-\(\)]/g, '')
CleanPhone(phone) == SelectSeq(phone, LAMBDA c : c \notin SpaceChars \cup {"-", "(", ")"})

\* VCardHandler.generate
generate(contact) ==
    JoinWith(
        << Chars("BEGIN:VCARD"), Chars("VERSION:3.0") >>
        \o (IF Len(contact.name) > 0 THEN NameLines(contact.name) ELSE <<>>)
        \o (IF Len(contact.phone) > 0
            THEN << Chars("TEL;TYPE=CELL:") \o escape(CleanPhone(contact.phone)) >> ELSE <<>>)
        \o (IF Len(contact.email) > 0
            THEN << Chars("EMAIL;TYPE=INTERNET:") \o escape(contact.email) >> ELSE <<>>)
        \o (IF Len(contact.company) > 0
            THEN << Chars("ORG:") \o escape(contact.company) >> ELSE <<>>)
        \o (IF Len(contact.eventTag) > 0
            THEN << Chars("X-EVENT-TAG:") \o escape(contact.eventTag) >> ELSE <<>>)
        \o << Chars("END:VCARD") >>,
        1, <<"\r", "\n">>)

IsLineBreak(c) == c \in {"\r", "\n"}

RECURSIVE LineStartsIn(_, _, _)
\* where a piece of s.split(/[\r\n]+/) that is not empty starts, among lo..hi
LineStartsIn(s, lo, hi) ==
    IF lo > hi THEN <<>>
    ELSE IF lo = hi
    THEN IF ~IsLineBreak(s[lo]) /\ (lo = 1 \/ IsLineBreak(s[lo - 1])) THEN <<lo>> ELSE <<>>
    ELSE LET mid == (lo + hi) \div 2
         IN  LineStartsIn(s, lo, mid) \o LineStartsIn(s, mid + 1, hi)

\* how many characters from character i on are no line break
LineLen(s, i) ==
    CHOOSE r \in 1..(Len(s) - i + 1) :
        /\ i + r > Len(s) \/ IsLineBreak(s[i + r])
        /\ \A k \in 0..(r - 1) : ~IsLineBreak(s[i + k])

\* vcardString.split(/[\r\n]+/): the pieces between the runs of line breaks, with an
\* empty piece first (last) when the string begins (ends) with a line break, and one
\* empty piece for the empty string
VCardLines(s) ==
    LET starts == LineStartsIn(s, 1, Len(s))
        pieces == [k \in 1..Len(starts) |->
                      SubSeq(s, starts[k], starts[k] + LineLen(s, starts[k]) - 1)]
        first == IF IsLineBreak(s[1]) THEN << <<>> >> ELSE <<>>
        last == IF IsLineBreak(s[Len(s)]) THEN << <<>> >> ELSE <<>>
    IN  IF Len(s) = 0 THEN << <<>> >> ELSE first \o pieces \o last

StartsWith(s, str) == Len(s) >= Len(str) /\ SubSeq(s, 1, Len(str)) = Chars(str)

\* where the first c of s is, 0 if there is none
IndexOf(s, c) ==
    IF \E i \in 1..Len(s) : s[i] = c
    THEN CHOOSE i \in 1..Len(s) : s[i] = c /\ \A k \in 1..(i - 1) : s[k] # c
    ELSE 0

\* the characters . of a regular expression does not match
LineTerminators == {"\n", "\r", "U+2028", "U+2029"}

\* a match that also takes the first space of a line without a colon for the separator
MatchLooseLine(line) ==
    LET sep == IF IndexOf(line, ":") > 0 THEN IndexOf(line, ":") ELSE IndexOf(line, " ")
        ok == sep > 1 /\ sep < Len(line)
    IN  [ok |-> ok,
         fieldPart |-> IF ok THEN SubSeq(line, 1, sep - 1) ELSE <<>>,
         value |-> IF ok THEN SubSeq(line, sep + 1, Len(line)) ELSE <<>>]

\* line.match(/^([^:]+):(.+)$/): ok, and the two groups
MatchFieldLine(line) ==
    LET colon == IndexOf(line, ":")
        ok == /\ colon > 1 /\ colon < Len(line)
              /\ \A i \in (colon + 1)..Len(line) : line[i] \notin LineTerminators
    IN  [ok |-> ok,
         fieldPart |-> IF ok THEN SubSeq(line, 1, colon - 1) ELSE <<>>,
         value |-> IF ok THEN SubSeq(line, colon + 1, Len(line)) ELSE <<>>]

RECURSIVE SplitOn(_, _)
\* s.split(c)
SplitOn(s, c) ==
    LET i == IndexOf(s, c)
    IN  IF i = 0 THEN <<s>>
        ELSE <<SubSeq(s, 1, i - 1)>> \o SplitOn(SubSeq(s, i + 1, Len(s)), c)

EmptyRecord ==
    [name |-> <<>>, phone |-> <<>>, email |-> <<>>, company |-> <<>>, eventTag |-> <<>>]

\* an N case that takes the family name alone
TakeFamilyName(contact, value) ==
    [contact EXCEPT !.name = unescape(SplitOn(value, ";")[1])]

\* the N case of parse
ParseN(contact, value) ==
    LET nameParts == SplitOn(value, ";")
    IN  IF Len(nameParts) >= 2
        THEN [contact EXCEPT !.name =
                  Trim(unescape(nameParts[2]) \o <<" ">> \o unescape(nameParts[1]))]
        ELSE IF Len(nameParts[1]) > 0
        THEN [contact EXCEPT !.name = unescape(nameParts[1])]
        ELSE contact

\* a TEL or EMAIL case that takes the value of every such line
TakeLatest(contact, f, unescapedValue) == [contact EXCEPT ![f] = unescapedValue]

\* the TEL and EMAIL cases of parse: if (!contact.phone) contact.phone = unescapedValue
SetIfEmpty(contact, f, unescapedValue) ==
    IF Len(contact[f]) = 0 THEN [contact EXCEPT ![f] = unescapedValue] ELSE contact

\* one turn of the loop of parse
parseLine(contact, line) ==
    IF Len(Trim(line)) = 0 \/ StartsWith(line, "BEGIN") \/ StartsWith(line, "END")
    THEN contact
    ELSE LET match == MatchFieldLine(line)
             field == ToUpperCase(SplitOn(match.fieldPart, ";")[1])
             unescapedValue == unescape(match.value)
         IN  IF ~match.ok THEN contact
             ELSE IF field = Chars("FN") THEN [contact EXCEPT !.name = unescapedValue]
             ELSE IF field = Chars("N") THEN ParseN(contact, match.value)
             ELSE IF field = Chars("TEL") THEN SetIfEmpty(contact, "phone", unescapedValue)
             ELSE IF field = Chars("EMAIL") THEN SetIfEmpty(contact, "email", unescapedValue)
             ELSE IF field = Chars("ORG") THEN [contact EXCEPT !.company = unescapedValue]
             ELSE IF field = Chars("X-EVENT-TAG")
             THEN [contact EXCEPT !.eventTag = unescapedValue]
             ELSE contact

RECURSIVE parseLines(_, _, _)
\* for (const line of lines) from line k on
parseLines(contact, lines, k) ==
    IF k > Len(lines) THEN contact
    ELSE parseLines(parseLine(contact, lines[k]), lines, k + 1)

\* VCardHandler.generateBatch
generateBatch(contacts) ==
    JoinWith([k \in 1..Len(contacts) |-> generate(contacts[k])], 1, <<"\r", "\n", "\r", "\n">>)

\* VCardHandler.parse of a string
parse(vcardString) ==
    IF Len(vcardString) = 0 THEN EmptyRecord
    ELSE parseLines(EmptyRecord, VCardLines(vcardString), 1)

(***************************************************************************)
(* The shared parser instance (const ocrProcessor = new OCRProcessor()) and *)
(* the calls made on it                                                    *)
(***************************************************************************)
VARIABLES
    lastIndex,   \* the lastIndex of the four g patterns of the shared instance
    pc,          \* "idle", or "returned" while the caller holds the outcome of a call
    op,          \* the method the outcome is of
    arg,         \* its argument
    ret,         \* its outcome
    ocrText,     \* a text as the OCR engine recognised it
    cleanings,   \* what the successive cleanText passes over ocrText returned
    card,        \* a contact record to share
    vcardString, \* the vCard generated from it
    decoded,     \* the record parsed from the vCard
    codecPc,     \* "start", "generated" or "parsed"
    mobile,      \* the parser instance of the mobile app: its lastIndex values, and the
                 \* outcome of the call made on it
    parseLoop,   \* a parse call in progress: where its loop is, and its contact so far
    escaping,    \* a field value, what escape made of it and what unescape made of that
    batch,       \* the batch state of the web app (AppState), the processBatch call in
                 \* progress, and the batch review on the page
    payload,     \* contacts shared as one payload, the payload, and what parse made of it
    ocr,         \* the Tesseract worker of the OCR processor, the workers created so far, and the init calls in progress
    storage      \* the contacts in AsyncStorage of the mobile app, the clock, and the save of a batch in progress

\* the lines the card texts are made of
CardLines ==
    << "Jane Doe", "Acme Inc", "Sales Manager", "Mary Ann Smith", "jane@acme.com",
       "123-456-7890", "Inc 555-1234" >>

\* how many lines a generated card text has at most
MaxLines == 2

RECURSIVE JoinLines(_, _)
\* the lines CardLines[ix[k]], ... joined with line feeds
JoinLines(ix, k) ==
    IF k > Len(ix) THEN <<>>
    ELSE IF k = Len(ix) THEN Chars(CardLines[ix[k]])
    ELSE Chars(CardLines[ix[k]]) \o <<"\n">> \o JoinLines(ix, k + 1)

GeneratedTexts ==
    { JoinLines(ix, 1) : ix \in UNION { [1..n -> 1..Len(CardLines)] : n \in 1..MaxLines } }

\* texts of the documented examples, and texts at the edges of the input domain
ExampleTexts ==
    { Chars("Jane Doe\nAcme Solutions Inc\njane@acme.com"),
      Chars("Robert Lee\nSenior Sales Manager\nrobert@firm.com"),
      Chars("John Smith\njohn@acme.com\n555-123-4567\nAcme Inc"),
      Chars("Jane Doe\n+1 (415) 555-2671\nWidgets LLC"),
      Chars("Sales Manager\nAcme Inc\nJane Doe"),
      Chars("Real Estate Agent\nAcme Inc"),
      Chars("Jane Doe\r\nAcme Solutions Inc\r\njane@acme.com"),
      Chars("John Smith\r\n555-123-4567"),
      Chars("Acme Inc\nReal Estate Agent"),
      Chars("Jane Doe Sales Manager jane@acme.com 555-123-4567 www.acme.com"),
      Chars("Jane Doe jane@acme.com 555-123-4567"),
      Chars("Jane Doe Senior Manager jane@acme.com 555-123-4567"),
      Chars("Jane Doe Account Manager jane@acme.com 555-123-4567"),
      Chars("Jane Doe\nJane Doe Account Manager jane@acme.com 555-123-4567"),
      Chars("Robert Lee Senior Sales Manager 415-555-2671 robert.lee@firm-solutions.com"),
      Chars("Robert Lee Senior Sales Manager at Firm Solutions robert.l@firm.com 415-555-2671"),
      Chars("Mary Ann Smith Blue Sky Labs mary@bluesky.com 123-456-7890 www.bluesky.com"),
      Chars("Jo Li\njo+li@acme.com"),
      Chars("john_doe@acme.com"),
      Chars("Mary Ann Smith\nBlue Sky Labs"),
      Chars("Mary Ann Smith\nMary Ann Smith\nBlue Sky Labs"),
      Chars("Mary Ann Smith\nMary Ann Smith"),
      Chars(" \t\n "),
      Chars("Jane") \o <<VerticalTab>> \o Chars("Doe\n555") \o <<VerticalTab>>
          \o Chars("123") \o <<VerticalTab>> \o Chars("4567"),
      Chars("Jane Doe ") \o <<"U+2022">> \o Chars(" Acme Inc"),
      Chars("Jane_") \o <<"U+2022", "U+00E2", "U+20AC", "U+00A2">> \o Chars("_Doe\nAcme-")
          \o <<"U+2022">> \o Chars("-Inc"),
      <<"U+00E9", "U+2022", "U+4E2D">> }

\* what a caller can pass: strings, nothing, and values that are no strings, falsy
\* and not
Arguments ==
    { Str(t) : t \in GeneratedTexts \cup ExampleTexts }
        \cup { Str(<<>>), Undefined, Null, Num("0"), Num("42"), Bool(FALSE) }

\* no parse call in progress
NotParsing == [pc |-> "idle", lines |-> <<>>, k |-> 0, contact |-> EmptyRecord]

NoOutcome == [threw |-> FALSE, contact |-> EmptyContact, classified |-> <<>>, text |-> <<>>]

parserVars == <<lastIndex, pc, op, arg, ret>>

cleaningVars == <<ocrText, cleanings>>

codecVars == <<card, vcardString, decoded, codecPc, parseLoop>>

mobileVars == <<mobile>>

\* no value escaped yet
NotEscaping == [pc |-> "start", value |-> <<>>, escaped |-> <<>>, unescaped |-> <<>>]

\* how many saveAllBatchContacts calls are in progress at most
MaxSaveAllCalls == 1

SaveAllCallers == 1..MaxSaveAllCalls

\* no saveAllBatchContacts call: pc is the await it stands at (saveContact,
\* loadContacts or loadEventTags) and left the number of contacts it has still to save
IdleSaveAll == [pc |-> "idle", left |-> 0]

\* a page that has the batch review section and the list of its cards
FullPage == [section |-> TRUE, list |-> TRUE]

\* AppState before any batch, no processBatch call (pc is the await it stands at, files
\* and i its locals), the page (whether it has elements.batchReviewSection and
\* elements.batchReviewList), the review section hidden and the contact form shown
\* (cards are the cards rendered last), no saveAllBatchContacts call, no alert of
\* processBatch (calls and alerts count its calls and its alerts), and no alert of the
\* review (notice is the alert its last step showed, empty when that showed none)
NoBatch ==
    [processing |-> FALSE, queue |-> <<>>, results |-> <<>>, index |-> 0,
     pc |-> "idle", files |-> <<>>, i |-> 0,
     page |-> FullPage, reviewShown |-> FALSE, formShown |-> TRUE, cards |-> <<>>,
     saves |-> [k \in SaveAllCallers |-> IdleSaveAll], calls |-> 0, alerts |-> 0,
     notice |-> ""]

\* no contacts shared yet
NoPayload == [pc |-> "start", contacts |-> <<>>, vcards |-> <<>>, decoded |-> EmptyRecord]

\* how many callers of init() there are
MaxCallers == 2

Callers == 1..MaxCallers

\* what init() handed to its caller: this.worker (0 for null) and the condition that
\* worker was in at that moment
NoWorker == [worker |-> 0, loaded |-> FALSE, initialized |-> FALSE, terminated |-> FALSE]

\* a caller that is not in init(): hasLocalFiles and attempt are the locals of init(),
\* and on is the worker a pending worker method was called on
IdleCall ==
    [pc |-> "idle", hasLocalFiles |-> FALSE, attempt |-> 0, on |-> 0, result |-> NoWorker]

\* the OCRProcessor after its constructor: this.worker = null, this.initAttempts = 0,
\* no worker created, no init() called, and no terminate() called (terminating is the
\* number of terminate() calls that wait for worker.terminate())
NoOcr ==
    [worker |-> 0, initAttempts |-> 0, workers |-> <<>>,
     calls |-> [c \in Callers |-> IdleCall], started |-> 0,
     terminating |-> 0, terminateCalls |-> 0]

\* how many calls on the storage are in progress at most
MaxStorageCalls == 2

StorageCallers == 1..MaxStorageCalls

\* no call in progress: op is the function called (saveContact, deleteContact,
\* getContact or handleSaveAll), pc the await it stands at (getItem or setItem),
\* validContacts and i the loop of handleSaveAll, contact and id the arguments of the
\* storage method, write the list handed to setItem, and removed the number of contacts
\* the filter of deleteContact took out
IdleStorageCall ==
    [op |-> "idle", pc |-> "idle", validContacts |-> <<>>, i |-> 0,
     contact |-> [name |-> <<>>, id |-> 0], id |-> 0, write |-> <<>>, removed |-> 0]

\* nothing in AsyncStorage, the clock at its first millisecond, and no call in
\* progress; saves is the number of saveContact calls made, updates that of the
\* updateContact calls, removed the number of
\* contacts the last deleteContact took out, got what the last getContact returned
\* (empty for undefined), and alert the message of the alert shown last
NoStorage ==
    [contacts |-> <<>>, now |-> 1, calls |-> [p \in StorageCallers |-> IdleStorageCall],
     saves |-> 0, updates |-> 0, removed |-> 0, got |-> <<>>, alert |-> ""]

appVars == <<escaping, batch, payload, ocr, storage>>

vars == <<parserVars, cleaningVars, codecVars, mobileVars, appVars>>

\* new ContactParser(): the patterns are fresh, and no call made yet (before is the
\* lastIndex values the call in hand found)
FreshMobile ==
    [lastIndex |-> FreshLastIndex, pc |-> "idle", op |-> "none", before |-> FreshLastIndex,
     ret |-> NoOutcome]

\* no call made on the parser yet
InitParser ==
    /\ lastIndex = FreshLastIndex
    /\ pc = "idle"
    /\ op = "none"
    /\ arg = Undefined
    /\ ret = NoOutcome
    /\ mobile = FreshMobile

\* no text to clean
InitCleaning ==
    /\ ocrText = <<>>
    /\ cleanings = <<>>

\* nothing else of the app has run
InitApp ==
    /\ escaping = NotEscaping
    /\ batch = NoBatch
    /\ payload = NoPayload
    /\ ocr = NoOcr
    /\ storage = NoStorage

\* no record to share
InitCodec ==
    /\ card = EmptyRecord
    /\ vcardString = <<>>
    /\ decoded = EmptyRecord
    /\ codecPc = "start"
    /\ parseLoop = NotParsing

\* new OCRProcessor(): the patterns are fresh
Init == InitParser /\ InitCleaning /\ InitCodec /\ InitApp

\* ocrProcessor.extractContactInfo(text)
ExtractContactInfo(text) ==
    /\ pc = "idle"
    /\ \E r \in {extractContactInfo(text, lastIndex)} :
           /\ lastIndex' = r.lastIndex
           /\ ret' = [threw |-> r.threw, contact |-> r.contact,
                      classified |-> r.classified, text |-> <<>>]
    /\ pc' = "returned"
    /\ op' = "extractContactInfo"
    /\ arg' = text
    /\ UNCHANGED <<appVars, mobile, cleaningVars, codecVars>>

\* cleanText(text) of any value: '' for a falsy one, a TypeError for one without replace
cleanTextOf(text) ==
    IF Falsy(text) THEN [threw |-> FALSE, text |-> <<>>]
    ELSE IF NoReplaceMethod(text) THEN [threw |-> TRUE, text |-> <<>>]
    ELSE [threw |-> FALSE, text |-> cleanText(text.v)]

\* ocrProcessor.cleanText(text)
CleanText(text) ==
    /\ pc = "idle"
    /\ LET r == cleanTextOf(text)
       IN  ret' = [threw |-> r.threw, contact |-> EmptyContact,
                   classified |-> <<>>, text |-> r.text]
    /\ pc' = "returned"
    /\ op' = "cleanText"
    /\ arg' = text
    /\ UNCHANGED <<appVars, mobile, lastIndex, cleaningVars, codecVars>>

\* line.toLowerCase() of a value that is no string: TypeError
NoToLowerCase(line) == line.t # "string"

\* classifyLine(line) of any value, on an instance whose patterns have the lastIndex
\* values li: the method has no guard, a value without toLowerCase is a TypeError
classifyLineOf(line, li) ==
    IF NoToLowerCase(line) THEN [threw |-> TRUE, classified |-> <<>>, lastIndex |-> li]
    ELSE [threw |-> FALSE] @@ classifyLines(<<line.v>>, 1, li)

\* the lines classifyLine is called with on its own
LinesAlone ==
    { Str(Chars(CardLines[i])) : i \in 1..Len(CardLines) }
        \cup { Str(Chars("555-123-4567")), Str(<<>>), Undefined, Num("0") }

\* ocrProcessor.classifyLine(line), called on its own
ClassifyLine(line) ==
    /\ pc = "idle"
    /\ \E r \in {classifyLineOf(line, lastIndex)} :
           /\ lastIndex' = r.lastIndex
           /\ ret' = [threw |-> r.threw, contact |-> EmptyContact,
                      classified |-> r.classified, text |-> <<>>]
    /\ pc' = "returned"
    /\ op' = "classifyLine"
    /\ arg' = line
    /\ UNCHANGED <<appVars, mobile, cleaningVars, codecVars>>

\* the caller takes the outcome; the instance stays as the call left it
Return ==
    /\ pc = "returned"
    /\ pc' = "idle"
    /\ op' = "none"
    /\ arg' = Undefined
    /\ ret' = NoOutcome
    /\ UNCHANGED <<appVars, mobile, lastIndex, cleaningVars, codecVars>>

Next ==
    \/ \E text \in Arguments : ExtractContactInfo(text)
    \/ \E text \in Arguments : CleanText(text)
    \/ \E line \in LinesAlone : ClassifyLine(line)
    \/ Return

Spec == Init /\ [][Next]_vars

(***************************************************************************)
(* cleanText applied to a recognised text, and again to its own result:    *)
(* extractText returns the cleaned text and extractContactInfo cleans what  *)
(* it is given                                                             *)
(***************************************************************************)
\* the characters the recognised texts are made of
CleanAlphabet ==
    {"a", " ", "\n", VerticalTab, "-", "_", "!", "+", ",", "U+2013", "U+00E9"}

\* how long a recognised text is at most
MaxCleanLen == 4

RecognisedTexts == UNION { [1..n -> CleanAlphabet] : n \in 0..MaxCleanLen }

InitClean ==
    /\ InitParser /\ InitCodec /\ InitApp
    /\ ocrText \in RecognisedTexts
    /\ cleanings = <<>>

\* extractText: cleanText of the text recognised, which is what extractText returns
CleanRecognised ==
    /\ cleanings = <<>>
    /\ cleanings' = <<cleanTextOf(Str(ocrText)).text>>
    /\ UNCHANGED <<appVars, mobile, ocrText, parserVars, codecVars>>

\* extractContactInfo of what extractText returned: past its guard if (!text), which
\* returns when that text is empty, cleanText of the text cleanText returned
CleanCleaned ==
    /\ Len(cleanings) = 1
    /\ ~Falsy(Str(cleanings[1]))
    /\ cleanings' = Append(cleanings, cleanTextOf(Str(cleanings[1])).text)
    /\ UNCHANGED <<appVars, mobile, ocrText, parserVars, codecVars>>

NextClean == CleanRecognised \/ CleanCleaned

SpecClean == InitClean /\ [][NextClean]_vars

\* C2: cleanText is idempotent: cleaning a text cleanText returned gives that text,
\* in the second pass extractContactInfo makes and in any call of cleanText on it (the
\* empty text included, which extractContactInfo does not clean again).
C2_Idempotent ==
    /\ \A k \in 2..Len(cleanings) : cleanings[k] = cleanings[1]
    /\ Len(cleanings) >= 1 => cleanTextOf(Str(cleanings[1])).text = cleanings[1]

\* a text the first pass changed has been cleaned twice
C2_Witness ==
    /\ Len(cleanings) >= 2
    /\ cleanings[1] # ocrText
    /\ cleanings[1] # <<>>

\* C11: cleanText does not treat '+' as garbage: the edge step strips no '+', so
\* every '+' of the recognised text is still in the cleaned text.
C11_PlusKept ==
    Len(cleanings) >= 1 =>
        Cardinality({i \in DOMAIN cleanings[1] : cleanings[1][i] = "+"})
            >= Cardinality({i \in DOMAIN ocrText : ocrText[i] = "+"})

(***************************************************************************)
(* Properties of extractContactInfo and cleanText on the shared instance   *)
(***************************************************************************)

\* C1: extractContactInfo is stateless across calls: whatever calls were made before
\* on the shared instance, a call returns what the same call returns on a freshly
\* constructed instance.
C1_SameAsFreshInstance ==
    (pc = "returned" /\ op = "extractContactInfo") =>
        LET fresh == extractContactInfo(arg, FreshLastIndex)
        IN  ret.threw = fresh.threw /\ ret.contact = fresh.contact

\* C4: extractContactInfo and cleanText never throw for a string argument, the empty,
\* the whitespace-only and the non-ASCII-only string included; cleanText returns a
\* string and extractContactInfo a record.
C4_Totality ==
    (pc = "returned" /\ arg.t = "string") =>
        /\ ~ret.threw
        /\ op = "cleanText" => DOMAIN ret.text = 1..Len(ret.text)
        /\ op = "extractContactInfo" =>
               DOMAIN ret.contact = {"name", "phone", "email", "company"}

\* extractContactInfo has returned from a string made only of non-ASCII characters
C4_Witness ==
    /\ pc = "returned" /\ op = "extractContactInfo"
    /\ arg.t = "string" /\ Len(arg.v) > 0
    /\ \A i \in 1..Len(arg.v) : ~IsAscii(arg.v[i])
    /\ ~ret.threw /\ ret.contact = EmptyContact

\* C6: the name is the normalized text of the first line classified name; only when
\* no line is classified name, that of the first line classified name_or_company;
\* the empty string when neither kind occurs. For the lines [Jane Doe, Acme
\* Solutions Inc, jane@acme.com] it is the person line.
C6_NameResolution ==
    (pc = "returned" /\ op = "extractContactInfo" /\ ~ret.threw) =>
        LET names == SelectSeq(ret.classified, LAMBDA cl : cl.type = "name")
            nameOrCompany == SelectSeq(ret.classified,
                                 LAMBDA cl : cl.type = "name_or_company")
        IN  /\ ret.contact.name =
                   IF Len(names) > 0 THEN cleanText(names[1].original)
                   ELSE IF Len(nameOrCompany) > 0 THEN cleanText(nameOrCompany[1].original)
                   ELSE <<>>
            /\ arg = Str(Chars("Jane Doe\nAcme Solutions Inc\njane@acme.com")) =>
                   ret.contact.name = Chars("Jane Doe")

\* a name_or_company line stands above the name line, and the name line is the name
C6_Witness ==
    /\ pc = "returned" /\ op = "extractContactInfo"
    /\ Len(ret.classified) = 2
    /\ ret.classified[1].type = "name_or_company"
    /\ ret.classified[2].type = "name"
    /\ ret.contact.name = ret.classified[2].original

\* C7: the company is the text of a line classified company if there is one, even
\* below a title line; otherwise that of the first title line; otherwise that of the
\* first name_or_company line whose text is not the name; otherwise empty. For the
\* lines [Robert Lee, Senior Sales Manager, robert@firm.com] it is the title line.
C7_CompanyResolution ==
    (pc = "returned" /\ op = "extractContactInfo" /\ ~ret.threw) =>
        LET companies == SelectSeq(ret.classified,
                             LAMBDA cl : cl.type = "company" /\ cl.confidence >= 8)
            titles == SelectSeq(ret.classified, LAMBDA cl : cl.type = "title")
            others == SelectSeq(ret.classified,
                          LAMBDA cl : /\ cl.type = "name_or_company"
                                      /\ cl.original # ret.contact.name)
        IN  /\ IF Len(companies) > 0
               THEN \E i \in 1..Len(companies) :
                        ret.contact.company = cleanText(companies[i].original)
               ELSE IF Len(titles) > 0
               THEN ret.contact.company = cleanText(titles[1].original)
               ELSE IF Len(others) > 0
               THEN ret.contact.company = cleanText(others[1].original)
               ELSE ret.contact.company = <<>>
            /\ arg = Str(Chars("Robert Lee\nSenior Sales Manager\nrobert@firm.com")) =>
                   ret.contact.company = Chars("Senior Sales Manager")

\* a title line stands above the company line, and the company line is the company
C7_Witness ==
    /\ pc = "returned" /\ op = "extractContactInfo"
    /\ Len(ret.classified) >= 2
    /\ ret.classified[1].type = "title"
    /\ ret.classified[2].type = "company"
    /\ ret.contact.company = ret.classified[2].original

\* C8: the email is the first match of the email pattern in the normalized text, in
\* lower case and trimmed, the empty string when there is none; and a text with a
\* line that is a well-formed address (the first line of the text with an @) yields
\* exactly that address.
C8_EmailExtraction ==
    (pc = "returned" /\ op = "extractContactInfo" /\ arg.t = "string" /\ ~ret.threw) =>
        LET cleanedText == cleanText(arg.v)
            m == Exec(EmailPattern, cleanedText, 0)
            rawLines == SplitLines(arg.v)
        IN  /\ ret.contact.email =
                   IF m.index = -1 THEN <<>>
                   ELSE ToLowerCase(Trim(SubSeq(cleanedText, m.index + 1, m.end)))
            /\ \A k \in 1..Len(rawLines) :
                   ( /\ Exec(EmailPattern, rawLines[k], 0) =
                            [index |-> 0, end |-> Len(rawLines[k])]
                     /\ \A j \in 1..(k - 1) : ~Includes(rawLines[j], "@") )
                   => ret.contact.email = ToLowerCase(rawLines[k])

\* C9: the phone is empty or decimal digits after an optional single leading +; it
\* holds no space, parenthesis, hyphen or dot.
C9_PhoneFormat ==
    (pc = "returned" /\ op = "extractContactInfo") =>
        \A i \in 1..Len(ret.contact.phone) :
            \/ ret.contact.phone[i] \in DigitChars
            \/ i = 1 /\ ret.contact.phone[i] = "+" /\ Len(ret.contact.phone) > 1

\* a number written with +, parentheses, spaces and a hyphen has been extracted
C9_Witness ==
    /\ pc = "returned" /\ op = "extractContactInfo" /\ arg.t = "string"
    /\ \A c \in {"+", "(", ")", " ", "-"} : \E i \in 1..Len(arg.v) : arg.v[i] = c
    /\ Len(ret.contact.phone) >= 10

\* C10: the phone is the first match of the phone pattern (of the fallback pattern if
\* there is none) without its whitespace, hyphens and dots, and without a leading
\* +1 if it has one; no other digit of the match is removed.
C10_PhoneAssignment ==
    (pc = "returned" /\ op = "extractContactInfo" /\ arg.t = "string" /\ ~ret.threw) =>
        LET cleanedText == cleanText(arg.v)
            first == Exec(PhonePattern, cleanedText, 0)
            m == IF first.index # -1 THEN first ELSE Exec(PhoneAltPattern, cleanedText, 0)
            matched == IF m.index = -1 THEN <<>> ELSE SubSeq(cleanedText, m.index + 1, m.end)
            bare == SelectSeq(matched, LAMBDA c : c \notin SpaceChars \cup {"-", "."})
        IN  ret.contact.phone =
                IF Len(bare) >= 2 /\ bare[1] = "+" /\ bare[2] = "1"
                THEN SubSeq(bare, 3, Len(bare)) ELSE bare

\* C12: when cleaning leaves exactly one line, longer than 50 characters, in which an
\* email and a phone number follow a name segment, the line is cut at the sorted
\* offsets of its email, phone and website matches into at least 2 segments, which
\* are classified in its place, and the email and the phone returned are those of the
\* line; several lines, or a single line of at most 50 characters, are never cut.
C12_SingleLineRecovery ==
    (pc = "returned" /\ op = "extractContactInfo" /\ arg.t = "string" /\ ~ret.threw) =>
        LET lines == CleanedLines(cleanText(arg.v))
            originals == [i \in 1..Len(ret.classified) |-> ret.classified[i].original]
            line == lines[1]
            emailAt == Exec(EmailPattern, line, 0)
            phoneAt == Exec(PhonePattern, line, 0)
            urlAt == Exec(UrlPattern, line, 0)
            websiteAt == IF urlAt.index # -1 THEN urlAt ELSE Exec(WwwDot, line, 0)
            cuts == ({emailAt.index, phoneAt.index, websiteAt.index} \ {-1})
                        \cup {0, Len(line)}
            sorted == CHOOSE f \in [1..Cardinality(cuts) -> cuts] :
                          \A i, j \in 1..Cardinality(cuts) : i < j => f[i] < f[j]
            pieces == [i \in 1..(Cardinality(cuts) - 1) |->
                          Trim(SubSeq(line, sorted[i] + 1, sorted[i + 1]))]
        IN  /\ (Len(lines) # 1 \/ Len(line) <= 50) => originals = lines
            /\ (Len(lines) = 1 /\ Len(line) > 50 /\ emailAt.index > 0 /\ phoneAt.index > 0) =>
                   /\ Len(originals) >= 2
                   /\ originals = SelectSeq(pieces, LAMBDA piece : Len(piece) > 0)
                   /\ ret.contact.email = ToLowerCase(MatchText(line, emailAt))
                   /\ ret.contact.phone =
                          SelectSeq(MatchText(line, phoneAt),
                                    LAMBDA c : c \notin SpaceChars \cup {"-", "."})

\* C13: every record extractContactInfo returns and every record parse returns has
\* the five fields name, phone, email, company and eventTag, each a string (the empty
\* string when unresolved, never a missing or undefined field).
C13_RecordShape ==
    /\ (pc = "returned" /\ op = "extractContactInfo" /\ ~ret.threw) =>
           /\ DOMAIN ret.contact = {"name", "phone", "email", "company", "eventTag"}
           /\ \A f \in DOMAIN ret.contact : ret.contact[f] \in Seq(STRING)
    /\ codecPc = "parsed" =>
           /\ DOMAIN decoded = {"name", "phone", "email", "company", "eventTag"}
           /\ \A f \in DOMAIN decoded : decoded[f] \in Seq(STRING)

\* the predicate of a rule of classifyLine, read on the content of the line alone
RuleHolds(rule, line) ==
    LET lowerLine == ToLowerCase(line)
        words == Words(line)
        capitalized == \A i \in 1..Len(words) : words[i][1] \in UpperChars
        plain == /\ \A i \in 1..Len(line) : line[i] \notin DigitChars
                 /\ Len(line) >= 3 /\ Len(line) <= 40
    IN  CASE rule = "email"   -> Includes(line, "@") \/ Test(EmailPattern, line)
          [] rule = "phone"   -> \/ Includes(line, "+") \/ Test(SevenDigits, line)
                                 \/ Test(PhonePattern, line) \/ Test(PhoneAltPattern, line)
          [] rule = "website" -> \/ Test(UrlPattern, line)
                                 \/ Includes(lowerLine, "www.") \/ Includes(lowerLine, ".com")
                                 \/ Includes(lowerLine, ".net") \/ Includes(lowerLine, ".org")
          [] rule = "address" -> \/ Test(StateZip, line) \/ Test(FiveDigits, line)
                                 \/ Test(StreetPattern, line)
          [] rule = "company" -> IncludesAny(lowerLine, companyPatterns)
          [] rule = "title"   -> IncludesAny(lowerLine, titleKeywords)
          [] rule = "name"    -> Len(words) = 2 /\ capitalized /\ plain
          [] rule = "name_or_company" -> Len(words) >= 2 /\ capitalized /\ plain

\* the rules in the order they are tried
RuleOrder ==
    <<"email", "phone", "website", "address", "company", "title", "name", "name_or_company">>

\* the kind and the confidence a rule gives to a line it holds on
RuleKind(rule, line) ==
    CASE rule \in {"email", "phone", "company"} -> [type |-> rule, confidence |-> 10]
      [] rule \in {"website", "name"} -> [type |-> rule, confidence |-> 9]
      [] rule = "address" -> [type |-> rule, confidence |-> 8]
      [] rule = "title" ->
            IF \/ Includes(ToLowerCase(line), "real estate")
               \/ Includes(ToLowerCase(line), "realestate")
            THEN [type |-> "company", confidence |-> 8]
            ELSE [type |-> "title", confidence |-> 7]
      [] rule = "name_or_company" -> [type |-> rule, confidence |-> 6]

\* the kind of the first rule of RuleOrder that holds on the line, unknown when none does
FirstRuleKind(line) ==
    LET holding == {k \in 1..Len(RuleOrder) : RuleHolds(RuleOrder[k], line)}
    IN  IF holding = {} THEN [type |-> "unknown", confidence |-> 0]
        ELSE RuleKind(RuleOrder[CHOOSE k \in holding : \A j \in holding : k <= j], line)

\* C18: classifyLine is an ordered first-match-wins chain over the content of the line:
\* whatever lines were classified before it, on this call or an earlier one, every
\* line extractContactInfo classified has the kind and the confidence of the first
\* rule, in the order email, phone, website, address, strong company keyword, title
\* keyword, name, name_or_company, that holds on it, and unknown with 0 when none holds.
C18_FirstRuleWins ==
    (pc = "returned" /\ op = "extractContactInfo") =>
        \A i \in 1..Len(ret.classified) :
            /\ ret.classified[i].type = FirstRuleKind(ret.classified[i].original).type
            /\ ret.classified[i].confidence
                   = FirstRuleKind(ret.classified[i].original).confidence

\* C19 as stated: when several lines classified company are candidates for the company,
\* the company is the text of one of the highest confidence among them.
C19_HigherConfidenceWins ==
    (pc = "returned" /\ op = "extractContactInfo" /\ ~ret.threw) =>
        LET companies == SelectSeq(ret.classified,
                             LAMBDA cl : cl.type = "company" /\ cl.confidence >= 8)
        IN  Len(companies) > 0 =>
                \E i \in 1..Len(companies) :
                    /\ \A j \in 1..Len(companies) :
                           companies[i].confidence >= companies[j].confidence
                    /\ ret.contact.company = cleanText(companies[i].original)

\* C19: position breaks ties, confidence only admits a line as a candidate: when
\* several lines classified company (confidence 8 or 10) are candidates for the
\* company, the company is the text of the topmost of them, whatever their
\* confidences; likewise the name is the text of the topmost line classified name.
C19_TopmostCandidateWins ==
    (pc = "returned" /\ op = "extractContactInfo" /\ ~ret.threw) =>
        LET companies == SelectSeq(ret.classified,
                             LAMBDA cl : cl.type = "company" /\ cl.confidence >= 8)
            names == SelectSeq(ret.classified,
                         LAMBDA cl : cl.type = "name" /\ cl.confidence >= 9)
        IN  /\ Len(companies) > 0 =>
                   ret.contact.company = cleanText(companies[1].original)
            /\ Len(names) > 0 => ret.contact.name = cleanText(names[1].original)

\* a company line of confidence 8 stands above one of confidence 10, and is the company
C19_Witness ==
    /\ pc = "returned" /\ op = "extractContactInfo" /\ ~ret.threw
    /\ Len(ret.classified) = 2
    /\ ret.classified[1].type = "company" /\ ret.classified[1].confidence = 8
    /\ ret.classified[2].type = "company" /\ ret.classified[2].confidence = 10
    /\ ret.contact.company = ret.classified[1].original
    /\ ret.contact.company # ret.classified[2].original

\* C24: the phone extractContactInfo returns is taken from within one line: what is
\* returned (the match without its separators, or the end of it) is a piece of one
\* line of the cleaned text without its separators, never digits of one line glued
\* to digits of the next.
C24_PhoneWithinOneLine ==
    (pc = "returned" /\ op = "extractContactInfo" /\ ~ret.threw /\ arg.t = "string") =>
        LET lines == SplitLines(cleanText(arg.v))
            phone == ret.contact.phone
            pieceOf(s) == \E p \in 0..(Len(s) - Len(phone)) :
                              SubSeq(s, p + 1, p + Len(phone)) = phone
        IN  Len(phone) > 0 => \E k \in 1..Len(lines) : pieceOf(StripSeparators(lines[k]))

(***************************************************************************)
(* One recognised text given to the parser of the web app, a fresh         *)
(* instance, and to the parser of the mobile app, the shared instance      *)
(* contactParser, which is called again and again                          *)
(***************************************************************************)
InitPorts ==
    /\ InitCleaning /\ InitCodec /\ InitApp
    /\ lastIndex = FreshLastIndex
    /\ pc = "idle"
    /\ op = "none"
    /\ arg \in Arguments
    /\ ret = NoOutcome
    /\ mobile = FreshMobile

\* ocrProcessor.extractContactInfo(text) in the web app
WebExtract == ExtractContactInfo(arg)

\* what a call left of the mobile parser, and what it returned or threw
MobileReturned(method, r) ==
    [lastIndex |-> r.lastIndex, pc |-> "returned", op |-> method,
     before |-> mobile.lastIndex,
     ret |-> [threw |-> r.threw, contact |-> r.contact,
              classified |-> r.classified, text |-> <<>>]]

\* contactParser.extractContactInfo(text) in the mobile app
MobileExtract ==
    /\ mobile.pc = "idle"
    /\ \E r \in {MobileExtractContactInfo(arg, mobile.lastIndex)} :
           mobile' = MobileReturned("extractContactInfo", r)
    /\ UNCHANGED <<appVars, parserVars, cleaningVars, codecVars>>

\* text.trim().length === 0
Blank(text) == Len(Trim(text)) = 0

\* catch (error) of processImage: the empty contact is returned for what was thrown
Caught(r) ==
    IF r.threw
    THEN [threw |-> FALSE, contact |-> EmptyContact, classified |-> <<>>,
          lastIndex |-> r.lastIndex]
    ELSE r

\* processImage of the mobile app from the text extractText returned, on a
\* contactParser whose patterns have the lastIndex values li: for no text and for a
\* blank one the empty contact, contactParser not called; what is thrown is caught
\* and the empty contact returned
mobileProcessImage(text, li) ==
    IF Falsy(text) \/ Blank(text.v)
    THEN [threw |-> FALSE, contact |-> EmptyContact, classified |-> <<>>, lastIndex |-> li]
    ELSE Caught(MobileExtractContactInfo(text, li))

\* ocrProcessor.processImage(uri) of the mobile app, extractText having returned the
\* text (a string, always)
MobileProcessImage ==
    /\ mobile.pc = "idle"
    /\ arg.t = "string"
    /\ \E r \in {mobileProcessImage(arg, mobile.lastIndex)} :
           mobile' = MobileReturned("processImage", r)
    /\ UNCHANGED <<appVars, parserVars, cleaningVars, codecVars>>

\* the lines contactParser.classifyLine is called with on its own: one that leaves
\* patterns.phone.lastIndex at 12, one that matches no pattern, and a value that is
\* no string
MobileLinesAlone == { Str(Chars("555-123-4567")), Str(Chars("Jane Doe")), Undefined }

\* contactParser.classifyLine(line), called on its own
MobileClassifyLine(line) ==
    /\ mobile.pc = "idle"
    /\ \E r \in {[contact |-> EmptyContact] @@ classifyLineOf(line, mobile.lastIndex)} :
           mobile' = MobileReturned("classifyLine", r)
    /\ UNCHANGED <<appVars, parserVars, cleaningVars, codecVars>>

\* the caller takes the outcome; contactParser stays as the call left it
MobileReturn ==
    /\ mobile.pc = "returned"
    /\ mobile' = [mobile EXCEPT !.pc = "idle", !.op = "none", !.ret = NoOutcome,
                                !.before = mobile.lastIndex]
    /\ UNCHANGED <<appVars, parserVars, cleaningVars, codecVars>>

NextPorts ==
    \/ WebExtract
    \/ MobileExtract
    \/ MobileProcessImage
    \/ \E line \in MobileLinesAlone : MobileClassifyLine(line)
    \/ MobileReturn

SpecPorts == InitPorts /\ [][NextPorts]_vars

\* C17: the web and the mobile copy of the parser are equivalent: for every text,
\* both return the same name, phone, email and company.
C17_SameOnWebAndMobile ==
    (pc = "returned" /\ mobile.pc = "returned" /\ mobile.op = "extractContactInfo"
     /\ mobile.before = FreshLastIndex) =>
        /\ ret.threw = mobile.ret.threw
        /\ \A f \in {"name", "phone", "email", "company"} :
               ret.contact[f] = mobile.ret.contact[f]

(***************************************************************************)
(* A record shared as a vCard: generate, then parse of what was generated  *)
(***************************************************************************)
\* the characters the generated names are made of
NameAlphabet == {"A", "b", " "}

\* how long a generated name is at most
MaxNameLen == 3

CardNames ==
    { Chars(n) : n \in { "Cher", "Jane Doe", "Jane  Doe", "Mary Ann Smith", "Doe; Jane",
                            "Jane Doe;Jr" } }
    \cup UNION { [1..n -> NameAlphabet] : n \in 0..MaxNameLen }

CardPhones == { "", "5551234567", "555-123-4567", "(555) 123 4567", "+15551234567" }

CardEmails == { "", "jane@acme.com" }

CardCompanies == { "", "Acme Inc", "Acme: Labs", "Acme, Inc.", "Acme\r\nLabs" }

CardEventTags == { "", "Expo 2024", "Expo\n2024" }

CardRecords ==
    { [name |-> n, phone |-> Chars(p), email |-> Chars(e), company |-> Chars(c),
       eventTag |-> Chars(t)] :
      n \in CardNames, p \in CardPhones, e \in CardEmails, c \in CardCompanies,
      t \in CardEventTags }

InitVCard ==
    /\ InitParser /\ InitCleaning /\ InitApp
    /\ card \in CardRecords
    /\ vcardString = <<>>
    /\ decoded = EmptyRecord
    /\ codecPc = "start"
    /\ parseLoop = NotParsing

\* vcardHandler.generate(card)
Generate ==
    /\ codecPc = "start"
    /\ vcardString' = generate(card)
    /\ codecPc' = "generated"
    /\ UNCHANGED <<appVars, mobile, card, decoded, parseLoop, parserVars, cleaningVars>>

\* vcardHandler.parse(vcardString)
Parse ==
    /\ codecPc = "generated"
    /\ decoded' = parse(vcardString)
    /\ codecPc' = "parsed"
    /\ UNCHANGED <<appVars, mobile, card, vcardString, parseLoop, parserVars, cleaningVars>>

NextVCard == Generate \/ Parse

SpecVCard == InitVCard /\ [][NextVCard]_vars

\* C3 as stated: for a record whose five fields are ASCII without backslash,
\* semicolon, comma and newline, parse(generate(r)) has every field of r exactly.
C3_ExactRoundTrip ==
    LET reserved == {"\\", ";", ",", "\n", "\r"}
        simple(v) == \A i \in 1..Len(v) : IsAscii(v[i]) /\ v[i] \notin reserved
    IN  ( /\ codecPc = "parsed"
          /\ simple(card.name) /\ simple(card.phone) /\ simple(card.email)
          /\ simple(card.company) /\ simple(card.eventTag) )
        => decoded = card

\* C3: for a record whose five fields are ASCII without backslash, semicolon, comma
\* and newline, parse(generate(r)) has the email, the company and the event tag of r
\* exactly, the phone of r without its whitespace, hyphens and parentheses, and the
\* name of r with its words joined by single spaces.
C3_RoundTrip ==
    LET reserved == {"\\", ";", ",", "\n", "\r"}
        simple(v) == \A i \in 1..Len(v) : IsAscii(v[i]) /\ v[i] \notin reserved
    IN  ( /\ codecPc = "parsed"
          /\ simple(card.name) /\ simple(card.phone) /\ simple(card.email)
          /\ simple(card.company) /\ simple(card.eventTag) )
        => /\ decoded.email = card.email
           /\ decoded.company = card.company
           /\ decoded.eventTag = card.eventTag
           /\ decoded.phone =
                  SelectSeq(card.phone, LAMBDA c : c \notin SpaceChars \cup {"-", "(", ")"})
           /\ decoded.name = JoinWith(Words(card.name), 1, <<" ">>)

\* a record with all five fields, a three-word name and a punctuated phone went
\* through generate and parse
C3_Witness ==
    /\ codecPc = "parsed"
    /\ card.name = Chars("Mary Ann Smith") /\ decoded.name = card.name
    /\ card.phone = Chars("(555) 123 4567") /\ decoded.phone = Chars("5551234567")
    /\ card.email # <<>> /\ card.company # <<>> /\ card.eventTag # <<>>
    /\ decoded.email = card.email

\* C16: a name of exactly two whitespace-separated tokens comes back from generate
\* and parse as it was: the N line 'last;first' reassembles to the original name.
C16_NameReassembly ==
    (codecPc = "parsed" /\ Len(Words(card.name)) = 2) => decoded.name = card.name

\* the pieces of s between its CRLF pairs: s split on CRLF
SplitCRLF(s) ==
    LET breaks == {i \in 1..(Len(s) - 1) : s[i] = "\r" /\ s[i + 1] = "\n"}
        break(k) == CHOOSE i \in breaks : Cardinality({j \in breaks : j < i}) = k - 1
        n == Cardinality(breaks) + 1
    IN  [k \in 1..n |-> SubSeq(s, IF k = 1 THEN 1 ELSE break(k - 1) + 2,
                                  IF k = n THEN Len(s) ELSE break(k) - 1)]

\* C22: the vCard generate returns, split on CRLF, is BEGIN:VCARD, VERSION:3.0, then
\* one line for each non-empty field and none for an empty one, in the order FN, N
\* (both for a non-empty name), TEL, EMAIL, ORG, X-EVENT-TAG, then END:VCARD; and no
\* line holds a carriage return or a line feed: no value adds a physical line.
C22_Framing ==
    codecPc \in {"generated", "parsed"} =>
        LET lines == SplitCRLF(vcardString)
            fieldsOf(f, prefixes) == IF Len(card[f]) > 0 THEN prefixes ELSE <<>>
            expected == <<"BEGIN:VCARD", "VERSION:3.0">>
                        \o fieldsOf("name", <<"FN:", "N:">>)
                        \o fieldsOf("phone", <<"TEL;TYPE=CELL:">>)
                        \o fieldsOf("email", <<"EMAIL;TYPE=INTERNET:">>)
                        \o fieldsOf("company", <<"ORG:">>)
                        \o fieldsOf("eventTag", <<"X-EVENT-TAG:">>)
                        \o <<"END:VCARD">>
        IN  /\ Len(lines) = Len(expected)
            /\ \A k \in 1..Len(lines) :
                   /\ StartsWith(lines[k], expected[k])
                   /\ \A i \in 1..Len(lines[k]) : lines[k][i] \notin {"\r", "\n"}
            /\ lines[1] = Chars("BEGIN:VCARD")
            /\ lines[2] = Chars("VERSION:3.0")
            /\ lines[Len(lines)] = Chars("END:VCARD")

\* a record with all five fields, a CRLF in its company and a line feed in its event
\* tag has been generated: nine lines, the company on one of them
C22_Witness ==
    /\ codecPc = "generated"
    /\ card.name = Chars("Jane Doe") /\ card.phone # <<>> /\ card.email # <<>>
    /\ card.company = Chars("Acme\r\nLabs") /\ card.eventTag = Chars("Expo\n2024")
    /\ Len(SplitCRLF(vcardString)) = 9
    /\ SplitCRLF(vcardString)[7] = Chars("ORG:Acme\\nLabs")

(***************************************************************************)
(* parse of a scanned vCard (qr.js: vCardHandler.parse(qrData)), one turn  *)
(* of its loop at a time                                                   *)
(***************************************************************************)
\* the lines the scanned vCards are made of, the empty line among them: a vCard that
\* begins or ends with a line break, or has two in a row
ScannedLines ==
    << "BEGIN:VCARD", "FN:Jane Doe", "N:Roe;Jane;;;", "N:Cher", "TEL;TYPE=CELL:5551234567",
       "tel:555\\,1234", "EMAIL;TYPE=INTERNET:jane@acme.com", "EMAIL:j.doe@firm.com",
       "ORG:Acme Inc", "ORG:Widgets\\, LLC", "X-EVENT-TAG:Expo 2024", "X-EVENT-TAG:Fair",
       "TEL 5550000", "NOTE", "ORG:", "N:;;;;", "END:VCARD", "" >>

\* how many lines a scanned vCard has at most
MaxVCardLines == 3

RECURSIVE JoinScanned(_, _)
\* the lines ScannedLines[ix[k]], ... joined with CRLF
JoinScanned(ix, k) ==
    IF k > Len(ix) THEN <<>>
    ELSE IF k = Len(ix) THEN Chars(ScannedLines[ix[k]])
    ELSE Chars(ScannedLines[ix[k]]) \o <<"\r", "\n">> \o JoinScanned(ix, k + 1)

ScannedVCards ==
    { JoinScanned(ix, 1) :
          ix \in UNION { [1..n -> 1..Len(ScannedLines)] : n \in 0..MaxVCardLines } }

InitScan ==
    /\ InitParser /\ InitCleaning /\ InitApp
    /\ card = EmptyRecord
    /\ vcardString \in ScannedVCards
    /\ decoded = EmptyRecord
    /\ codecPc = "start"
    /\ parseLoop = NotParsing

\* parse(vcardString) up to its loop: the guard, and the split into lines
ParseBegin ==
    /\ codecPc = "start" /\ parseLoop.pc = "idle"
    /\ IF Len(vcardString) = 0
       THEN /\ parseLoop' = [NotParsing EXCEPT !.pc = "done"]
            /\ decoded' = EmptyRecord
            /\ codecPc' = "parsed"
       ELSE /\ parseLoop' = [pc |-> "loop", lines |-> VCardLines(vcardString), k |-> 1,
                             contact |-> EmptyRecord]
            /\ UNCHANGED <<decoded, codecPc>>
    /\ UNCHANGED <<appVars, mobile, card, vcardString, parserVars, cleaningVars>>

\* one turn of the loop over the lines
ParseTurn ==
    /\ parseLoop.pc = "loop" /\ parseLoop.k <= Len(parseLoop.lines)
    /\ parseLoop' = [parseLoop EXCEPT
                         !.contact = parseLine(parseLoop.contact, parseLoop.lines[parseLoop.k]),
                         !.k = @ + 1]
    /\ UNCHANGED <<appVars, mobile, card, vcardString, decoded, codecPc, parserVars, cleaningVars>>

\* return contact
ParseEnd ==
    /\ parseLoop.pc = "loop" /\ parseLoop.k > Len(parseLoop.lines)
    /\ parseLoop' = [parseLoop EXCEPT !.pc = "done"]
    /\ decoded' = parseLoop.contact
    /\ codecPc' = "parsed"
    /\ UNCHANGED <<appVars, mobile, card, vcardString, parserVars, cleaningVars>>

NextScan == ParseBegin \/ ParseTurn \/ ParseEnd

SpecScan == InitScan /\ [][NextScan]_vars

\* C14: parse is first-wins for TEL and EMAIL: once a TEL (an EMAIL) line has set
\* the phone (the email), no later line changes it, and the phone (email) returned
\* is the unescaped value of the first TEL (EMAIL) line, empty when there is none.
C14_FirstWins ==
    /\ [][ /\ parseLoop.contact.phone # <<>> =>
                  parseLoop'.contact.phone = parseLoop.contact.phone
           /\ parseLoop.contact.email # <<>> =>
                  parseLoop'.contact.email = parseLoop.contact.email ]_vars
    /\ [](codecPc = "parsed" =>
              LET lines == VCardLines(vcardString)
                  colon(l) == IndexOf(l, ":")
                  semi(l) == IndexOf(SubSeq(l, 1, colon(l) - 1), ";")
                  fieldOf(l) == ToUpperCase(SubSeq(l, 1, IF semi(l) > 0 THEN semi(l) - 1
                                                          ELSE colon(l) - 1))
                  valueOf(l) == SubSeq(l, colon(l) + 1, Len(l))
                  linesOf(f) == SelectSeq(lines, LAMBDA l : /\ colon(l) > 0
                                                            /\ Len(valueOf(l)) > 0
                                                            /\ fieldOf(l) = Chars(f))
                  firstOf(f) == IF Len(linesOf(f)) = 0 THEN <<>>
                                ELSE unescape(valueOf(linesOf(f)[1]))
              IN  /\ decoded.phone = firstOf("TEL")
                  /\ decoded.email = firstOf("EMAIL"))

\* a vCard with two different TEL lines and then an EMAIL line has been parsed, and
\* the phone is the unescaped value of the first TEL line
C14_Witness ==
    /\ codecPc = "parsed"
    /\ vcardString = Chars("tel:555\\,1234\r\nTEL;TYPE=CELL:5551234567\r\nEMAIL:j.doe@firm.com")
    /\ decoded.phone = Chars("555,1234")
    /\ decoded.email = Chars("j.doe@firm.com")

\* C15: parse ignores malformed lines: a turn of the loop on a line without ':' leaves
\* the contact as it was, and the record returned for a vCard with such a line is the
\* record parse returns for the vCard without that line.
C15_MalformedIgnored ==
    /\ [][ ( /\ parseLoop.pc = "loop" /\ parseLoop.k <= Len(parseLoop.lines)
             /\ IndexOf(parseLoop.lines[parseLoop.k], ":") = 0 )
           => parseLoop'.contact = parseLoop.contact ]_vars
    /\ [](codecPc = "parsed" =>
              LET lines == VCardLines(vcardString)
                  without(k) == [i \in 1..(Len(lines) - 1) |->
                                    IF i < k THEN lines[i] ELSE lines[i + 1]]
              IN  \A k \in 1..Len(lines) :
                      IndexOf(lines[k], ":") = 0 =>
                          decoded = parse(JoinWith(without(k), 1, <<"\r", "\n">>)))

\* a vCard with a line without ':' between two field lines has been parsed, and both
\* fields are in the record
C15_Witness ==
    /\ codecPc = "parsed"
    /\ vcardString = Chars("FN:Jane Doe\r\nTEL 5550000\r\nORG:Acme Inc")
    /\ decoded = [EmptyRecord EXCEPT !.name = Chars("Jane Doe"), !.company = Chars("Acme Inc")]

\* the field a line FIELD:value or FIELD;params:value names, in upper case
LineField(l) ==
    LET colon == IndexOf(l, ":")
        semi == IndexOf(SubSeq(l, 1, colon - 1), ";")
    IN  ToUpperCase(SubSeq(l, 1, IF semi > 0 THEN semi - 1 ELSE colon - 1))

\* what stands after the first colon of the line
LineValue(l) == SubSeq(l, IndexOf(l, ":") + 1, Len(l))

\* the line is a line FIELD:value or FIELD;params:value of one of the fields fs
CarriesField(l, fs) ==
    /\ IndexOf(l, ":") > 0
    /\ \E f \in fs : LineField(l) = Chars(f)

\* the name an FN line or an N line (last;first;...) states
LineName(l) ==
    LET parts == SplitOn(LineValue(l), ";")
    IN  IF LineField(l) = Chars("FN") THEN unescape(LineValue(l))
        ELSE IF Len(parts) >= 2
        THEN Trim(unescape(parts[2]) \o <<" ">> \o unescape(parts[1]))
        ELSE unescape(parts[1])

\* C20: parse is last-wins for FN, N, ORG and X-EVENT-TAG: a turn of the loop on such
\* a line sets the field from that line whatever an earlier line had set, so the name
\* returned is that of the last FN or N line (an N line after an FN line replaces the
\* name), and the company and the event tag returned are the unescaped values of the
\* last ORG and the last X-EVENT-TAG line, each empty when there is no such line.
C20_LastWins ==
    /\ [][ ( /\ parseLoop.pc = "loop" /\ parseLoop.k <= Len(parseLoop.lines)
             /\ parseLoop'.k = parseLoop.k + 1 )
           => /\ CarriesField(parseLoop.lines[parseLoop.k], {"FN", "N"}) =>
                     parseLoop'.contact.name = LineName(parseLoop.lines[parseLoop.k])
              /\ CarriesField(parseLoop.lines[parseLoop.k], {"ORG"}) =>
                     parseLoop'.contact.company
                         = unescape(LineValue(parseLoop.lines[parseLoop.k]))
              /\ CarriesField(parseLoop.lines[parseLoop.k], {"X-EVENT-TAG"}) =>
                     parseLoop'.contact.eventTag
                         = unescape(LineValue(parseLoop.lines[parseLoop.k])) ]_vars
    /\ [](codecPc = "parsed" =>
              LET lines == VCardLines(vcardString)
                  linesOf(fs) == SelectSeq(lines, LAMBDA l : CarriesField(l, fs))
                  lastOf(fs) == linesOf(fs)[Len(linesOf(fs))]
              IN  /\ decoded.name = IF Len(linesOf({"FN", "N"})) = 0 THEN <<>>
                                    ELSE LineName(lastOf({"FN", "N"}))
                  /\ decoded.company = IF Len(linesOf({"ORG"})) = 0 THEN <<>>
                                       ELSE unescape(LineValue(lastOf({"ORG"})))
                  /\ decoded.eventTag =
                         IF Len(linesOf({"X-EVENT-TAG"})) = 0 THEN <<>>
                         ELSE unescape(LineValue(lastOf({"X-EVENT-TAG"}))))

(***************************************************************************)
(* A field value through escape and then unescape                          *)
(***************************************************************************)
\* the characters the field values are made of
EscapeAlphabet == {"\\", "n", ";", ",", "\n", "\r", "a"}

\* how long a field value is at most
MaxValueLen == 3

FieldValues == UNION { [1..n -> EscapeAlphabet] : n \in 0..MaxValueLen }

InitEscape ==
    /\ InitParser /\ InitCleaning /\ InitCodec
    /\ batch = NoBatch /\ payload = NoPayload /\ ocr = NoOcr
    /\ storage = NoStorage
    /\ escaping \in { [NotEscaping EXCEPT !.value = v] : v \in FieldValues }

\* this.escape(value)
Escape ==
    /\ escaping.pc = "start"
    /\ escaping' = [escaping EXCEPT !.escaped = escape(escaping.value), !.pc = "escaped"]
    /\ UNCHANGED <<parserVars, cleaningVars, codecVars, mobileVars, batch, payload, ocr, storage>>

\* this.unescape(value) of what escape returned
Unescape ==
    /\ escaping.pc = "escaped"
    /\ escaping' = [escaping EXCEPT !.unescaped = unescape(escaping.escaped),
                                    !.pc = "unescaped"]
    /\ UNCHANGED <<parserVars, cleaningVars, codecVars, mobileVars, batch, payload, ocr, storage>>

NextEscape == Escape \/ Unescape

SpecEscape == InitEscape /\ [][NextEscape]_vars

\* C21: unescape is the inverse of escape: for every value without carriage returns,
\* backslashes, semicolons, commas, newlines and a backslash followed by the letter n
\* included, unescape(escape(value)) is the value.
C21_UnescapeInvertsEscape ==
    ( /\ escaping.pc = "unescaped"
      /\ \A i \in 1..Len(escaping.value) : escaping.value[i] # "\r" )
    => escaping.unescaped = escaping.value

(***************************************************************************)
(* OCRProcessor.init() called by callers that overlap.  A step is the code *)
(* between two awaits; the outcome of an awaited call is chosen when it    *)
(* settles.                                                                *)
(***************************************************************************)
\* this.maxInitAttempts
maxInitAttempts == 2

\* how many times init() is called in all
MaxInitCalls == 2

\* how many times terminate() is called in all
MaxTerminateCalls == 1

\* how many workers Tesseract.createWorker resolves with in all
MaxWorkers == 2

\* a worker as Tesseract.createWorker resolves with it
NewWorker == [loaded |-> FALSE, initialized |-> FALSE, terminated |-> FALSE]

\* the worker w (0 for null) of the processor o as it is handed to a caller
HandedOut(o, w) ==
    IF w = 0 THEN NoWorker
    ELSE [worker |-> w, loaded |-> o.workers[w].loaded,
          initialized |-> o.workers[w].initialized,
          terminated |-> o.workers[w].terminated]

InitOcr ==
    /\ InitParser /\ InitCleaning /\ InitCodec
    /\ escaping = NotEscaping /\ batch = NoBatch /\ storage = NoStorage
    /\ payload = NoPayload
    /\ ocr = NoOcr

\* init() up to its first await: if (this.worker) return this.worker;
\* else await this.checkLocalFiles()
initCalled(o, c) ==
    [o EXCEPT !.calls[c] =
                  IF o.worker # 0
                  THEN [IdleCall EXCEPT !.pc = "returned",
                                        !.result = HandedOut(o, o.worker)]
                  ELSE [IdleCall EXCEPT !.pc = "checkLocalFiles"]]

\* extractText calls init()
InitCall(c) ==
    /\ ocr.calls[c].pc = "idle"
    /\ ocr.started < MaxInitCalls
    /\ ocr' = [initCalled(ocr, c) EXCEPT !.started = @ + 1]
    /\ UNCHANGED <<parserVars, cleaningVars, codecVars, mobileVars, escaping, batch, payload, storage>>

\* the first await of an attempt: the fetch of tesseract-core.wasm.js when the local
\* files are there, else Tesseract.createWorker
AttemptBegun(hasLocalFiles) == IF hasLocalFiles THEN "fetchCore" ELSE "createWorker"

\* checkLocalFiles() settled with its answer (it never rejects): the loop starts with
\* attempt 1, up to the first await of the attempt
LocalFilesChecked(c, hasLocalFiles) ==
    /\ ocr.calls[c].pc = "checkLocalFiles"
    /\ ocr' = [ocr EXCEPT !.initAttempts = 1,
                          !.calls[c].hasLocalFiles = hasLocalFiles,
                          !.calls[c].attempt = 1,
                          !.calls[c].pc = AttemptBegun(hasLocalFiles)]
    /\ UNCHANGED <<parserVars, cleaningVars, codecVars, mobileVars, escaping, batch, payload, storage>>

\* the fetch of tesseract-core.wasm.js settled, with either answer (its catch makes a
\* rejection false): Tesseract.createWorker is called
CoreFetched(c) ==
    /\ ocr.calls[c].pc = "fetchCore"
    /\ ocr' = [ocr EXCEPT !.calls[c].pc = "createWorker"]
    /\ UNCHANGED <<parserVars, cleaningVars, codecVars, mobileVars, escaping, batch, payload, storage>>

\* this.worker = await Tesseract.createWorker(...), then this.worker.loadLanguage('eng')
\* is called; or createWorker rejected
CreateWorkerSettled(c, resolved) ==
    /\ ocr.calls[c].pc = "createWorker"
    /\ resolved => Len(ocr.workers) < MaxWorkers
    /\ ocr' = IF resolved
              THEN [ocr EXCEPT !.workers = Append(@, NewWorker),
                               !.worker = Len(ocr.workers) + 1,
                               !.calls[c].on = Len(ocr.workers) + 1,
                               !.calls[c].pc = "loadLanguage"]
              ELSE [ocr EXCEPT !.calls[c].pc = "caught"]
    /\ UNCHANGED <<parserVars, cleaningVars, codecVars, mobileVars, escaping, batch, payload, storage>>

\* await this.worker.loadLanguage('eng') settled; when it resolved,
\* this.worker.initialize('eng') is called on what this.worker is now, a TypeError if
\* that is null.  On a terminated worker the call does not resolve.
LoadLanguageSettled(c, resolved) ==
    /\ ocr.calls[c].pc = "loadLanguage"
    /\ resolved => ~ocr.workers[ocr.calls[c].on].terminated
    /\ ocr' = IF resolved
              THEN [ocr EXCEPT !.workers[ocr.calls[c].on].loaded = TRUE,
                               !.calls[c].on = ocr.worker,
                               !.calls[c].pc = IF ocr.worker = 0 THEN "caught"
                                               ELSE "initialize"]
              ELSE [ocr EXCEPT !.calls[c].pc = "caught"]
    /\ UNCHANGED <<parserVars, cleaningVars, codecVars, mobileVars, escaping, batch, payload, storage>>

\* await this.worker.initialize('eng') settled; when it resolved:
\* this.initAttempts = 0; return this.worker.  It resolves only on a worker that has
\* the language loaded and is not terminated.
InitializeSettled(c, resolved) ==
    /\ ocr.calls[c].pc = "initialize"
    /\ resolved => /\ ocr.workers[ocr.calls[c].on].loaded
                   /\ ~ocr.workers[ocr.calls[c].on].terminated
    /\ \E after \in {[ocr EXCEPT !.workers[ocr.calls[c].on].initialized = TRUE]} :
           ocr' = IF resolved
                  THEN [after EXCEPT !.initAttempts = 0,
                                     !.calls[c].pc = "returned",
                                     !.calls[c].result = HandedOut(after, ocr.worker)]
                  ELSE [ocr EXCEPT !.calls[c].pc = "caught"]
    /\ UNCHANGED <<parserVars, cleaningVars, codecVars, mobileVars, escaping, batch, payload, storage>>

\* the end of an attempt that failed: throw after the last one, else wait a second
AttemptFailed(c) == IF ocr.calls[c].attempt = maxInitAttempts THEN "threw" ELSE "waiting"

\* the catch block after await this.checkWhichFilesFailed():
\* if (this.worker) await this.worker.terminate()
CleanUp(c) ==
    /\ ocr.calls[c].pc = "caught"
    /\ ocr' = IF ocr.worker # 0
              THEN [ocr EXCEPT !.workers[ocr.worker].terminated = TRUE,
                               !.calls[c].on = ocr.worker,
                               !.calls[c].pc = "terminate"]
              ELSE [ocr EXCEPT !.calls[c].pc = AttemptFailed(c)]
    /\ UNCHANGED <<parserVars, cleaningVars, codecVars, mobileVars, escaping, batch, payload, storage>>

\* terminate() settled, either way: this.worker = null
TerminateSettled(c) ==
    /\ ocr.calls[c].pc = "terminate"
    /\ ocr' = [ocr EXCEPT !.worker = 0, !.calls[c].pc = AttemptFailed(c)]
    /\ UNCHANGED <<parserVars, cleaningVars, codecVars, mobileVars, escaping, batch, payload, storage>>

\* the second is over: the next attempt, up to its first await
Retry(c) ==
    /\ ocr.calls[c].pc = "waiting"
    /\ ocr' = [ocr EXCEPT !.initAttempts = ocr.calls[c].attempt + 1,
                          !.calls[c].attempt = @ + 1,
                          !.calls[c].pc = AttemptBegun(ocr.calls[c].hasLocalFiles)]
    /\ UNCHANGED <<parserVars, cleaningVars, codecVars, mobileVars, escaping, batch, payload, storage>>

\* the caller, extractText, goes on with what init() returned or threw
InitSettled(c) ==
    /\ ocr.calls[c].pc \in {"returned", "threw"}
    /\ ocr' = [ocr EXCEPT !.calls[c] = IdleCall]
    /\ UNCHANGED <<parserVars, cleaningVars, codecVars, mobileVars, escaping, batch, payload, storage>>

\* terminate(): if (this.worker) await this.worker.terminate()
Terminate ==
    /\ ocr.terminateCalls < MaxTerminateCalls
    /\ ocr' = IF ocr.worker # 0
              THEN [ocr EXCEPT !.workers[ocr.worker].terminated = TRUE,
                               !.terminating = @ + 1,
                               !.terminateCalls = @ + 1]
              ELSE [ocr EXCEPT !.terminateCalls = @ + 1]
    /\ UNCHANGED <<parserVars, cleaningVars, codecVars, mobileVars, escaping, batch, payload, storage>>

\* the worker.terminate() of a terminate() call settled: this.worker = null when it
\* resolved; a rejection goes to the caller and this.worker stays
TerminateReturned(resolved) ==
    /\ ocr.terminating > 0
    /\ ocr' = IF resolved
              THEN [ocr EXCEPT !.worker = 0, !.terminating = @ - 1]
              ELSE [ocr EXCEPT !.terminating = @ - 1]
    /\ UNCHANGED <<parserVars, cleaningVars, codecVars, mobileVars, escaping, batch, payload, storage>>

NextOcr ==
    \/ \E c \in Callers :
           \/ InitCall(c)
           \/ \E hasLocalFiles \in BOOLEAN : LocalFilesChecked(c, hasLocalFiles)
           \/ CoreFetched(c)
           \/ \E resolved \in BOOLEAN : CreateWorkerSettled(c, resolved)
           \/ \E resolved \in BOOLEAN : LoadLanguageSettled(c, resolved)
           \/ \E resolved \in BOOLEAN : InitializeSettled(c, resolved)
           \/ CleanUp(c)
           \/ TerminateSettled(c)
           \/ Retry(c)
           \/ InitSettled(c)
    \/ Terminate
    \/ \E resolved \in BOOLEAN : TerminateReturned(resolved)

SpecOcr == InitOcr /\ [][NextOcr]_vars

\* C29: OCR worker initialisation is safe under overlapping calls: init() never
\* returns, to any caller including one that starts while another init() is still in
\* progress, a worker on which loadLanguage('eng') and initialize('eng') have not both
\* completed, and never hands out a worker that has been terminated after a failed
\* attempt.
C29_InitReturnsReadyWorker ==
    \A c \in Callers :
        (ocr.calls[c].pc = "returned" /\ ocr.calls[c].result.worker # 0) =>
            /\ ocr.calls[c].result.loaded
            /\ ocr.calls[c].result.initialized
            /\ ~ocr.calls[c].result.terminated

(***************************************************************************)
(* Batch mode of the web app: processBatch, a step being the code between  *)
(* two awaits, and the handlers of the batch review, which the page runs   *)
(* while processBatch waits                                                *)
(***************************************************************************)
\* a vCard as a QR code holds it
QrVCard == Chars("BEGIN:VCARD\nVERSION:3.0\nFN:Jane Doe\nTEL:5551234567\nEND:VCARD")

\* the files the batches are made of: whether ensureUnder2MB returns a smaller file, whether the
\* FileReader reads the file ("loaded") or its use throws ("threw"), the data of the QR
\* code on the image (none when empty), whether worker.recognize gives a text ("text")
\* or rejects ("rejected"), the text recognised, what is thrown (an Error, a string or
\* null), and error.message of it: undefined for a string
BatchFiles ==
    << [name |-> "a.jpg", compressed |-> FALSE, read |-> "loaded", qr |-> QrVCard,
       ocr |-> "text", text |-> <<>>, thrown |-> "none", message |-> Undefined],
      [name |-> "b.jpg", compressed |-> TRUE, read |-> "loaded", qr |-> <<>>,
       ocr |-> "text", text |-> Chars("Jane Doe\nInc 555-1234"), thrown |-> "none",
       message |-> Undefined],
      [name |-> "c.jpg", compressed |-> FALSE, read |-> "loaded", qr |-> <<>>,
       ocr |-> "rejected", text |-> <<>>, thrown |-> "Error",
       message |-> Str(Chars("Error attempting to read image."))],
      [name |-> "d.jpg", compressed |-> FALSE, read |-> "threw", qr |-> <<>>,
       ocr |-> "text", text |-> <<>>, thrown |-> "Error",
       message |-> Str(Chars("FileReader is not defined"))],
      [name |-> "e.jpg", compressed |-> FALSE, read |-> "loaded", qr |-> <<>>,
       ocr |-> "rejected", text |-> <<>>, thrown |-> "string", message |-> Undefined],
      [name |-> "f.jpg", compressed |-> TRUE, read |-> "loaded", qr |-> <<>>,
       ocr |-> "rejected", text |-> <<>>, thrown |-> "null", message |-> Undefined] >>

\* how many files a batch has at most
MaxBatchFiles == 2

\* how many batches are started at most
MaxBatches == 2

\* how many calls are made while a batch is in progress at most
MaxRejected == 1

\* handleFileSelect calls processBatch for more than one file: the batches are the
\* files of BatchFiles taken MaxBatchFiles at a time, the first following the last
Batches ==
    { [j \in 1..MaxBatchFiles |->
           BatchFiles[(((k - 1) * MaxBatchFiles + j - 1) % Len(BatchFiles)) + 1]] :
          k \in 1..((Len(BatchFiles) + MaxBatchFiles - 1) \div MaxBatchFiles) }

\* the pages the app runs on: with and without the elements of the batch review
Pages == [section : BOOLEAN, list : BOOLEAN]

\* the init() call of the processImage that processBatch awaits
BatchCaller == 1

\* the awaits of processBatch: ensureUnder2MB, the FileReader, the QR detection, and in
\* processImage the init() and the worker.recognize of extractText, and the delay
AwaitsOfBatch == {"compress", "read", "qr", "init", "recognize", "delay"}

InitBatch ==
    /\ InitParser /\ InitCleaning /\ InitCodec
    /\ escaping = NotEscaping /\ payload = NoPayload /\ ocr = NoOcr
    /\ storage = NoStorage
    /\ batch \in { [NoBatch EXCEPT !.page = page] : page \in Pages }

\* !!result.error
hasError(result) == ~Falsy(result.error)

\* the cards of renderBatchReviewCards(): a card for every result, with the marks it
\* carries, and none for no result
BatchReviewCards(results) ==
    [k \in 1..Len(results) |->
        [hasError |-> hasError(results[k]), hasImage |-> results[k].hasImage]]

\* renderBatchReviewCards(): nothing without elements.batchReviewList
renderBatchReviewCards(b) ==
    IF b.page.list THEN [b EXCEPT !.cards = BatchReviewCards(b.results)] ELSE b

\* showBatchReview(): without one of the two elements the alert, and the contact form
\* is shown; else the form is hidden, the section shown and the cards rendered
showBatchReview(b) ==
    IF ~b.page.section \/ ~b.page.list
    THEN [b EXCEPT !.notice = "Batch processing complete!", !.formShown = TRUE]
    ELSE renderBatchReviewCards([b EXCEPT !.formShown = FALSE, !.reviewShown = TRUE])

\* hideBatchReview(): the section, when there is one, is hidden, and the form shown
hideBatchReview(b) ==
    [b EXCEPT !.reviewShown = IF b.page.section THEN FALSE ELSE @, !.formShown = TRUE]

\* the entry pushed for file number i (from 0): hasImage is imageData !== null
BatchEntry(file, i, hasImage, contact, error, wasCompressed) ==
    [index |-> i, fileName |-> file.name, hasImage |-> hasImage, contact |-> contact,
     error |-> error, wasCompressed |-> wasCompressed]

\* the entry of an error: the empty contact
ErrorEntry(file, i, hasImage, error, wasCompressed) ==
    BatchEntry(file, i, hasImage, EmptyRecord, error, wasCompressed)

\* the message of the TypeError that reading error.message of null throws
NullHasNoMessage == Str(Chars("Cannot read properties of null (reading 'message')"))

\* the message of the TypeError that this.worker.recognize throws when this.worker is
\* null
NullHasNoRecognize == Str(Chars("Cannot read properties of null (reading 'recognize')"))

\* the message of the error init() throws after its last attempt, as far as its first
\* line
InitErrorMessage == Str(Chars("OCR initialization failed after 2 attempts."))

\* processBatch from the end of a turn of its loop: i++, and either the next turn up to
\* its first await, or the code after the loop, showBatchReview() included
NextTurn(b) ==
    IF b.i + 1 < Len(b.files)
    THEN [b EXCEPT !.i = b.i + 1, !.index = b.i + 1, !.pc = "compress"]
    ELSE showBatchReview([b EXCEPT !.i = b.i + 1, !.processing = FALSE, !.queue = <<>>,
                                   !.pc = "finished"])

\* batchResults.push(entry)
Pushed(b, entry) == [b EXCEPT !.results = Append(@, entry)]

\* the file of the turn in progress
CurrentFile == batch.files[batch.i + 1]

\* the inner catch of processBatch, around processImage, for what was thrown with the
\* message given: the entry of the error is pushed and the loop continues without the
\* delay; when null was thrown, reading its message throws into the outer catch, which
\* pushes an entry without image
ProcessImageThrew(b, thrown, message) ==
    IF thrown = "null"
    THEN NextTurn(Pushed(b, ErrorEntry(b.files[b.i + 1], b.i, FALSE, NullHasNoMessage,
                                       FALSE)))
    ELSE NextTurn(Pushed(b, ErrorEntry(b.files[b.i + 1], b.i, TRUE, message,
                                       b.files[b.i + 1].compressed)))

\* the page when a step begins: the alert of the step before is gone
Quiet == [batch EXCEPT !.notice = ""]

\* processBatch(files) up to the first await of its first turn: the contact form is
\* hidden
ProcessBatchBegin(files) ==
    /\ ~batch.processing /\ batch.calls < MaxBatches
    /\ batch' = [Quiet EXCEPT !.processing = TRUE, !.queue = files, !.results = <<>>,
                              !.index = 0, !.pc = "compress", !.files = files, !.i = 0,
                              !.formShown = FALSE, !.calls = @ + 1]
    /\ UNCHANGED <<parserVars, cleaningVars, codecVars, mobileVars, escaping, payload, ocr, storage>>

\* processBatch(files) while AppState.batchProcessing: the alert, and return
ProcessBatchRejected ==
    /\ batch.processing /\ batch.alerts < MaxRejected
    /\ batch' = [batch EXCEPT !.alerts = @ + 1]
    /\ UNCHANGED <<parserVars, cleaningVars, codecVars, mobileVars, escaping, payload, ocr, storage>>

\* ensureUnder2MB(file) has settled (it never rejects): the FileReader is set to read
\* the file; when that throws, the outer catch pushes an entry without image
Compressed ==
    /\ batch.pc = "compress"
    /\ batch' = IF CurrentFile.read = "threw"
                THEN NextTurn(Pushed(Quiet, ErrorEntry(CurrentFile, batch.i, FALSE,
                                                       CurrentFile.message, FALSE)))
                ELSE [Quiet EXCEPT !.pc = "read"]
    /\ UNCHANGED <<parserVars, cleaningVars, codecVars, mobileVars, escaping, payload, ocr, storage>>

\* reader.onload: the image data is there, qrDetector.detectAndParseVCard is called
ImageRead ==
    /\ batch.pc = "read"
    /\ batch' = [Quiet EXCEPT !.pc = "qr"]
    /\ UNCHANGED <<parserVars, cleaningVars, codecVars, mobileVars, escaping, payload, ocr, storage>>

\* qrDetector.detectAndParseVCard of a QR code with the data qr: null without a code
\* and for data that is no vCard
detectAndParseVCard(qr) ==
    IF Len(qr) > 0 /\ Includes(Trim(qr), "BEGIN:VCARD")
    THEN [found |-> TRUE, contact |-> parse(Trim(qr))]
    ELSE [found |-> FALSE, contact |-> EmptyRecord]

\* the detection of the QR code has settled: the entry of a contact with a name is
\* pushed and the delay started; else ocrProcessor.processImage is called, which calls
\* extractText, which calls init()
QrSettled ==
    /\ batch.pc = "qr"
    /\ \E qr \in {detectAndParseVCard(CurrentFile.qr)} :
           IF qr.found /\ Len(qr.contact.name) > 0
           THEN /\ batch' = [Pushed(Quiet, BatchEntry(CurrentFile, batch.i, TRUE,
                                                      qr.contact, Null,
                                                      CurrentFile.compressed))
                                EXCEPT !.pc = "delay"]
                /\ ocr' = ocr
           ELSE /\ batch' = [Quiet EXCEPT !.pc = "init"]
                /\ ocr' = initCalled(ocr, BatchCaller)
    /\ UNCHANGED <<parserVars, cleaningVars, codecVars, mobileVars, escaping, payload, storage>>

\* init() has returned to extractText, which calls this.worker.recognize, a TypeError
\* when this.worker is null
InitReturned ==
    /\ batch.pc = "init" /\ ocr.calls[BatchCaller].pc = "returned"
    /\ ocr' = [ocr EXCEPT !.calls[BatchCaller] = IdleCall]
    /\ batch' = IF ocr.worker = 0
                THEN ProcessImageThrew(Quiet, "Error", NullHasNoRecognize)
                ELSE [Quiet EXCEPT !.pc = "recognize"]
    /\ UNCHANGED <<parserVars, cleaningVars, codecVars, mobileVars, escaping, payload, storage>>

\* init() has thrown after its last attempt: extractText and processImage throw the
\* error on
InitThrew ==
    /\ batch.pc = "init" /\ ocr.calls[BatchCaller].pc = "threw"
    /\ ocr' = [ocr EXCEPT !.calls[BatchCaller] = IdleCall]
    /\ batch' = ProcessImageThrew(Quiet, "Error", InitErrorMessage)
    /\ UNCHANGED <<parserVars, cleaningVars, codecVars, mobileVars, escaping, payload, storage>>

\* worker.recognize has resolved: extractText has cleaned the text recognised and
\* extractContactInfo has run on the shared instance; the entry is pushed and the
\* delay started
OcrResolved ==
    /\ batch.pc = "recognize" /\ CurrentFile.ocr = "text"
    /\ \E r \in {extractContactInfo(Str(cleanTextOf(Str(CurrentFile.text)).text), lastIndex)} :
           /\ lastIndex' = r.lastIndex
           /\ batch' = [Pushed(Quiet, BatchEntry(CurrentFile, batch.i, TRUE, r.contact,
                                                 Null, CurrentFile.compressed))
                           EXCEPT !.pc = "delay"]
    /\ UNCHANGED <<pc, op, arg, ret, cleaningVars, codecVars, mobileVars, escaping, payload, ocr, storage>>

\* worker.recognize has rejected: extractText and processImage throw on what it
\* rejected with
OcrRejected ==
    /\ batch.pc = "recognize" /\ CurrentFile.ocr = "rejected"
    /\ batch' = ProcessImageThrew(Quiet, CurrentFile.thrown, CurrentFile.message)
    /\ UNCHANGED <<parserVars, cleaningVars, codecVars, mobileVars, escaping, payload, ocr, storage>>

\* the delay between two files has elapsed
DelayElapsed ==
    /\ batch.pc = "delay"
    /\ batch' = NextTurn(Quiet)
    /\ UNCHANGED <<parserVars, cleaningVars, codecVars, mobileVars, escaping, payload, ocr, storage>>

\* removeBatchCard(index), the onclick of a card of the review and a function of the
\* window: nothing for an index that is no index of batchResults
RemoveBatchCard(index) ==
    /\ batch' = IF index < 0 \/ index >= Len(batch.results) THEN Quiet
                ELSE renderBatchReviewCards(
                         [Quiet EXCEPT !.results =
                              SubSeq(batch.results, 1, index)
                                  \o SubSeq(batch.results, index + 2, Len(batch.results))])
    /\ UNCHANGED <<parserVars, cleaningVars, codecVars, mobileVars, escaping, payload, ocr, storage>>

\* hideBatchReview(), a function of the window
HideBatchReview ==
    /\ batch' = hideBatchReview(Quiet)
    /\ UNCHANGED <<parserVars, cleaningVars, codecVars, mobileVars, escaping, payload, ocr, storage>>

\* the calls in progress are told apart by k, and a new call is given the first k free
FreeSaveAll(k) ==
    /\ batch.saves[k].pc = "idle"
    /\ \A j \in 1..(k - 1) : batch.saves[j].pc # "idle"

\* how many results can have a card with a name input on the page
NameInputs == IF Len(batch.cards) < Len(batch.results) THEN Len(batch.cards)
              ELSE Len(batch.results)

\* saveAllBatchContacts() where named of the results have a card with a name filled
\* in: the alert when that is none, else up to the await of the first
\* contactManager.saveContact
SaveAllBatchContacts(k, named) ==
    /\ named > 0 => FreeSaveAll(k)
    /\ named <= NameInputs
    /\ batch' = IF named = 0
                THEN [Quiet EXCEPT !.notice = "Please fill in at least the name field"]
                ELSE [Quiet EXCEPT !.saves[k] = [pc |-> "saveContact", left |-> named]]
    /\ UNCHANGED <<parserVars, cleaningVars, codecVars, mobileVars, escaping, payload, ocr, storage>>

\* a contactManager.saveContact has settled.  When it resolved the next is called or,
\* after the last, hideBatchReview() and then loadContacts(); when it rejected, the
\* alert with error.message, which is not reached when what was thrown is null
SaveContactSettled(k, outcome) ==
    /\ batch.saves[k].pc = "saveContact"
    /\ batch' = IF outcome = "resolved"
                THEN IF batch.saves[k].left > 1
                     THEN [Quiet EXCEPT !.saves[k].left = @ - 1]
                     ELSE [hideBatchReview(Quiet) EXCEPT
                               !.saves[k] = [pc |-> "loadContacts", left |-> 0]]
                ELSE [Quiet EXCEPT !.saves[k] = IdleSaveAll,
                                   !.notice = IF outcome = "rejected"
                                              THEN "Error saving contacts" ELSE @]
    /\ UNCHANGED <<parserVars, cleaningVars, codecVars, mobileVars, escaping, payload, ocr, storage>>

\* loadContacts() has settled (it never rejects): loadEventTags() is called
ContactsLoaded(k) ==
    /\ batch.saves[k].pc = "loadContacts"
    /\ batch' = [Quiet EXCEPT !.saves[k].pc = "loadEventTags"]
    /\ UNCHANGED <<parserVars, cleaningVars, codecVars, mobileVars, escaping, payload, ocr, storage>>

\* loadEventTags() has settled (it never rejects): AppState.batchResults is emptied
EventTagsLoaded(k) ==
    /\ batch.saves[k].pc = "loadEventTags"
    /\ batch' = [Quiet EXCEPT !.results = <<>>, !.saves[k] = IdleSaveAll]
    /\ UNCHANGED <<parserVars, cleaningVars, codecVars, mobileVars, escaping, payload, ocr, storage>>

NextBatch ==
    \/ \E files \in Batches : ProcessBatchBegin(files)
    \/ ProcessBatchRejected
    \/ Compressed
    \/ ImageRead
    \/ QrSettled
    \/ \E hasLocalFiles \in BOOLEAN : LocalFilesChecked(BatchCaller, hasLocalFiles)
    \/ CoreFetched(BatchCaller)
    \/ \E resolved \in BOOLEAN : CreateWorkerSettled(BatchCaller, resolved)
    \/ \E resolved \in BOOLEAN : LoadLanguageSettled(BatchCaller, resolved)
    \/ \E resolved \in BOOLEAN : InitializeSettled(BatchCaller, resolved)
    \/ CleanUp(BatchCaller)
    \/ TerminateSettled(BatchCaller)
    \/ Retry(BatchCaller)
    \/ InitReturned
    \/ InitThrew
    \/ OcrResolved
    \/ OcrRejected
    \/ DelayElapsed
    \/ \E index \in -1..MaxBatchFiles : RemoveBatchCard(index)
    \/ HideBatchReview
    \/ \E k \in SaveAllCallers :
           \/ \E named \in 0..MaxBatchFiles : SaveAllBatchContacts(k, named)
           \/ \E outcome \in {"resolved", "rejected", "rejectedNull"} :
                  SaveContactSettled(k, outcome)
           \/ ContactsLoaded(k)
           \/ EventTagsLoaded(k)

SpecBatch == InitBatch /\ [][NextBatch]_vars

\* C23: batch processing is sequential and complete: the files are handled one at a
\* time in the order given (the loop moves on by one file, and an entry pushed is that
\* of the file in hand); a call made while a batch is in progress changes nothing of
\* the batch; and when processBatch finishes, batchResults has one entry for each
\* file, in the order of the files, and batchProcessing is false again.
C23_BatchComplete ==
    /\ [][ /\ (batch.processing /\ batch'.i # batch.i) =>
                  /\ batch'.i = batch.i + 1
                  /\ batch'.processing => batch'.index = batch'.i
           /\ (batch.processing /\ Len(batch'.results) > Len(batch.results)) =>
                  /\ Len(batch'.results) = Len(batch.results) + 1
                  /\ batch'.results[Len(batch'.results)].index = batch.i
                  /\ batch'.results[Len(batch'.results)].fileName
                         = batch.files[batch.i + 1].name
           /\ (batch.processing /\ batch'.alerts # batch.alerts) =>
                  batch' = [batch EXCEPT !.alerts = batch'.alerts]
           /\ (batch.processing /\ ~batch'.processing) =>
                  /\ Len(batch'.results) = Len(batch.files)
                  /\ \A k \in 1..Len(batch'.results) :
                         /\ batch'.results[k].index = k - 1
                         /\ batch'.results[k].fileName = batch.files[k].name ]_vars
    /\ [](batch.processing <=> batch.pc \in AwaitsOfBatch)

\* C25: line endings do not change the result: a text whose lines are joined with CRLF
\* gives, on the web and on the mobile parser, the record the same lines joined with
\* LF give.
C25_LineEndings ==
    arg.t = "string" =>
        LET withLF == Str(JoinWith(SplitCRLF(arg.v), 1, <<"\n">>))
        IN  /\ (pc = "returned" /\ op = "extractContactInfo") =>
                   ret.contact = extractContactInfo(withLF, FreshLastIndex).contact
            /\ (mobile.pc = "returned" /\ mobile.op = "extractContactInfo") =>
                   mobile.ret.contact
                       = MobileExtractContactInfo(withLF, mobile.before).contact

\* C26: the record extractContactInfo returns, on the web and on the mobile parser,
\* never has the same non-empty string as its name and as its company.
C26_NameIsNotCompany ==
    /\ (pc = "returned" /\ op = "extractContactInfo" /\ ~ret.threw) =>
           (ret.contact.name # <<>> => ret.contact.company # ret.contact.name)
    /\ (mobile.pc = "returned" /\ mobile.op \in {"extractContactInfo", "processImage"}
            /\ ~mobile.ret.threw) =>
           (mobile.ret.contact.name # <<>> =>
                mobile.ret.contact.company # mobile.ret.contact.name)

\* the name came from a name_or_company line, the same text stands on the next line,
\* and the company is the text of the line after that
C26_Witness ==
    /\ pc = "returned" /\ op = "extractContactInfo"
    /\ arg = Str(Chars("Mary Ann Smith\nMary Ann Smith\nBlue Sky Labs"))
    /\ ret.contact.name = Chars("Mary Ann Smith")
    /\ ret.contact.company = Chars("Blue Sky Labs")

(***************************************************************************)
(* Several contacts shared as one payload (generateBatch), and parse of    *)
(* the payload                                                             *)
(***************************************************************************)
\* the contacts the payloads are made of
SharedContacts ==
    { [name |-> Chars(c[1]), phone |-> Chars(c[2]), email |-> Chars(c[3]),
       company |-> Chars(c[4]), eventTag |-> Chars(c[5])] :
      c \in { <<"Jane Doe", "5551234567", "jane@acme.com", "Acme Inc", "Expo 2024">>,
              <<"John Smith", "4155552671", "john@firm.com", "Firm LLC", "Fair">>,
              <<"Cher", "", "", "", "">>,
              <<"Robert Lee", "2025550101", "", "", "">>,
              <<"", "", "info@widgets.com", "Widgets", "">>,
              <<"Mary Ann Smith", "", "mary@bluesky.com", "", "Expo 2024">> } }

\* how many contacts a payload has at most
MaxContacts == 2

InitShare ==
    /\ InitParser /\ InitCleaning /\ InitCodec
    /\ escaping = NotEscaping /\ batch = NoBatch /\ ocr = NoOcr
    /\ storage = NoStorage
    /\ payload \in { [NoPayload EXCEPT !.contacts = cs] :
                       cs \in UNION { [1..n -> SharedContacts] : n \in 1..MaxContacts } }

\* vCardHandler.generateBatch(contacts)
GenerateBatch ==
    /\ payload.pc = "start"
    /\ payload' = [payload EXCEPT !.vcards = generateBatch(payload.contacts),
                                  !.pc = "generated"]
    /\ UNCHANGED <<parserVars, cleaningVars, codecVars, mobileVars, escaping, batch, ocr, storage>>

\* vCardHandler.parse(payload)
ParsePayload ==
    /\ payload.pc = "generated"
    /\ payload' = [payload EXCEPT !.decoded = parse(payload.vcards), !.pc = "parsed"]
    /\ UNCHANGED <<parserVars, cleaningVars, codecVars, mobileVars, escaping, batch, ocr, storage>>

NextShare == GenerateBatch \/ ParsePayload

SpecShare == InitShare /\ [][NextShare]_vars

\* C27: parse never mixes contacts: the non-empty fields of the record parse returns
\* for a payload of several vCards all come from one and the same BEGIN:VCARD ...
\* END:VCARD block, that is from one of the contacts.
C27_OneBlock ==
    payload.pc = "parsed" =>
        \E k \in 1..Len(payload.contacts) :
            \A f \in DOMAIN payload.decoded :
                payload.decoded[f] # <<>> =>
                    payload.decoded[f] = parse(generate(payload.contacts[k]))[f]

(***************************************************************************)
(* The single long line and the segments that replace it                   *)
(***************************************************************************)
\* the characters of s that are no whitespace, in order
NonWhitespace(s) == SelectSeq(s, LAMBDA c : ~InClass("space", c))

\* the lines of a returned classification
OriginalLines(classified) == [i \in 1..Len(classified) |-> classified[i].original]

\* all the lines, one after the other
Concat(lines) == JoinWith(lines, 1, <<>>)

\* the least offset >= from at which piece stands in line, or -1
OffsetOf(piece, line, from) ==
    LET at == { p \in from..(Len(line) - Len(piece)) :
                  SubSeq(line, p + 1, p + Len(piece)) = piece }
    IN  IF at = {} THEN -1 ELSE CHOOSE p \in at : \A q \in at : p <= q

RECURSIVE ConsecutivePieces(_, _, _, _)
\* lines k.. stand in line one after the other, without overlap, from offset from on
ConsecutivePieces(lines, line, k, from) ==
    k > Len(lines) \/
        LET p == OffsetOf(lines[k], line, from)
        IN  p # -1 /\ ConsecutivePieces(lines, line, k + 1, p + Len(lines[k]))

\* the lines are what a long single line was cut into, and lose none of its text
CutsOf(lines, single) ==
    (Len(single) = 1 /\ Len(single[1]) > SingleLineMinLength /\ lines # single) =>
        /\ Len(lines) > 1
        /\ ConsecutivePieces(lines, single[1], 1, 0)
        /\ NonWhitespace(Concat(lines)) = NonWhitespace(single[1])

\* C28: single-line re-splitting loses no text: whenever the single long line is
\* replaced by segments, the segments are consecutive, non-overlapping pieces of the
\* line in their original order, and every non-whitespace character of the line is in
\* exactly one segment; in the web parser and in the mobile parser.
C28_SegmentsLoseNoText ==
    /\ (pc = "returned" /\ ~ret.threw /\ arg.t = "string") =>
           CutsOf(OriginalLines(ret.classified), CleanedLines(cleanText(arg.v)))
    /\ (mobile.pc = "returned" /\ mobile.op \in {"extractContactInfo", "processImage"}
            /\ ~mobile.ret.threw /\ arg.t = "string") =>
           CutsOf(OriginalLines(mobile.ret.classified),
                  MobileCleanedLines(MobileCleanText(arg.v)))

\* a line of 74 characters was cut in four, by both parsers
C28_Witness ==
    /\ pc = "returned" /\ mobile.pc = "returned" /\ mobile.op = "extractContactInfo"
    /\ arg = Str(Chars("Mary Ann Smith Blue Sky Labs mary@bluesky.com 123-456-7890 www.bluesky.com"))
    /\ OriginalLines(ret.classified) =
           << Chars("Mary Ann Smith Blue Sky Labs"), Chars("mary@bluesky.com"),
              Chars("123-456-7890"), Chars("www.bluesky.com") >>
    /\ OriginalLines(mobile.ret.classified) = OriginalLines(ret.classified)

(***************************************************************************)
(* LocalStorage of the mobile app: contacts saved one by one and as a      *)
(* batch, and deleted by id                                                *)
(***************************************************************************)
\* the last millisecond of the clock
MaxNow == 2

\* how many saveContact calls are made at most, and so how many contacts are stored
MaxStored == 2

\* how many results a batch review has at most
MaxResults == 2

\* how many updateContact calls are made at most
MaxUpdates == 1

\* the contacts of the results under review: with a name, and without; id is the id
\* property of the contact, 0 when it has none
ReviewedContacts == { [name |-> Chars("Jane Doe"), id |-> 0],
                      [name |-> Chars("John Smith"), id |-> 0],
                      [name |-> <<>>, id |-> 0] }

\* the contacts saveContact is called with: those of a review, and one that has an id
\* property of its own
SavedContacts == ReviewedContacts \cup { [name |-> Chars("Jane Doe"), id |-> 1] }

ReviewResults == UNION { [1..n -> ReviewedContacts] : n \in 1..MaxResults }

\* AsyncStorage.getItem(STORAGE_KEY) resolved with the data stored
Resolved(data) == [ok |-> TRUE, data |-> data]

\* AsyncStorage.getItem(STORAGE_KEY) rejected
Rejected == [ok |-> FALSE, data |-> <<>>]

RECURSIVE SortNewestFirst(_, _)
\* contacts.sort((a, b) => new Date(b.createdAt) - new Date(a.createdAt)), from
\* contact k on: a stable sort
SortNewestFirst(contacts, k) ==
    IF k > Len(contacts) THEN <<>>
    ELSE LET rest == SortNewestFirst(contacts, k + 1)
             before == SelectSeq(rest, LAMBDA c : c.createdAt > contacts[k].createdAt)
             after == SelectSeq(rest, LAMBDA c : c.createdAt <= contacts[k].createdAt)
         IN  before \o <<contacts[k]>> \o after

\* getAllContacts() for what getItem settled with: [] from the catch when it rejected,
\* [] for no data, else the contacts sorted
getAllContacts(item) ==
    IF ~item.ok THEN <<>>
    ELSE IF Len(item.data) = 0 THEN <<>>
    ELSE SortNewestFirst(item.data, 1)

\* { id: Date.now().toString(), ...contact, imageUri, createdAt: new Date().toISOString() }
\* with the clock at now for the first reading and at later for the second: the id
\* property of the contact, when it has one, replaces the id generated
newContact(contact, now, later) ==
    [id |-> IF contact.id # 0 THEN contact.id ELSE now, name |-> contact.name,
     createdAt |-> later]

\* saveContact(contact) from the settling of getItem to its setItem: the list handed to
\* setItem
saveContact(item, contact, now, later) ==
    Append(getAllContacts(item), newContact(contact, now, later))

\* deleteContact(id) from the settling of getItem to its setItem: the list handed to
\* setItem
deleteContact(item, id) == SelectSeq(getAllContacts(item), LAMBDA c : c.id # id)

\* getContact(id) from the settling of getItem: every contact that find() can settle
\* on, of which it returns the first
getContact(item, id) == SelectSeq(getAllContacts(item), LAMBDA c : c.id = id)

\* the updates updateContact is called with: a new name, and a new name with an id
\* property; id is 0 for updates without one
ContactUpdates == { [name |-> Chars("Renamed"), id |-> 0],
                    [name |-> Chars("Renamed"), id |-> 2] }

\* where contacts.findIndex(c => c.id === id) finds the contact, 0 for -1
findIndex(contacts, id) ==
    IF \E k \in 1..Len(contacts) : contacts[k].id = id
    THEN CHOOSE k \in 1..Len(contacts) :
             /\ contacts[k].id = id
             /\ \A j \in 1..(k - 1) : contacts[j].id # id
    ELSE 0

\* updateContact(id, updates) from the settling of getItem to its setItem, for a contact
\* that is found: contacts[index] = { ...contacts[index], ...updates }, the list handed
\* to setItem
updateContact(item, id, updates) ==
    LET contacts == getAllContacts(item)
        index == findIndex(contacts, id)
    IN  [contacts EXCEPT ![index] =
             [id |-> IF updates.id # 0 THEN updates.id ELSE contacts[index].id,
              name |-> updates.name, createdAt |-> contacts[index].createdAt]]

InitStorage ==
    /\ InitParser /\ InitCleaning /\ InitCodec /\ escaping = NotEscaping /\ batch = NoBatch
    /\ payload = NoPayload /\ ocr = NoOcr
    /\ storage = NoStorage

\* a millisecond passes
Tick ==
    /\ storage.now < MaxNow
    /\ storage' = [storage EXCEPT !.now = @ + 1]
    /\ UNCHANGED <<parserVars, cleaningVars, codecVars, mobileVars, escaping, batch, payload, ocr>>

\* the calls in progress are told apart by p, and a new call is given the first p free
Free(p) ==
    /\ storage.calls[p].op = "idle"
    /\ \A q \in 1..(p - 1) : storage.calls[q].op # "idle"

\* localStorage.saveContact(contact) up to await this.getAllContacts(), that is up to
\* its await AsyncStorage.getItem
SaveContact(p, contact) ==
    /\ Free(p)
    /\ storage.saves < MaxStored
    /\ storage' = [storage EXCEPT !.saves = @ + 1,
                                  !.calls[p] = [IdleStorageCall EXCEPT
                                                    !.op = "saveContact", !.pc = "getItem",
                                                    !.contact = contact]]
    /\ UNCHANGED <<parserVars, cleaningVars, codecVars, mobileVars, escaping, batch, payload, ocr>>

\* localStorage.deleteContact(id) up to its await AsyncStorage.getItem
DeleteContact(p, id) ==
    /\ Free(p)
    /\ storage' = [storage EXCEPT !.calls[p] = [IdleStorageCall EXCEPT
                                                    !.op = "deleteContact",
                                                    !.pc = "getItem", !.id = id]]
    /\ UNCHANGED <<parserVars, cleaningVars, codecVars, mobileVars, escaping, batch, payload, ocr>>

\* localStorage.getContact(id) up to its await AsyncStorage.getItem
GetContact(p, id) ==
    /\ Free(p)
    /\ storage' = [storage EXCEPT !.calls[p] = [IdleStorageCall EXCEPT
                                                    !.op = "getContact",
                                                    !.pc = "getItem", !.id = id]]
    /\ UNCHANGED <<parserVars, cleaningVars, codecVars, mobileVars, escaping, batch, payload, ocr>>

\* localStorage.updateContact(id, updates) up to its await AsyncStorage.getItem
UpdateContact(p, id, updates) ==
    /\ Free(p)
    /\ storage.updates < MaxUpdates
    /\ storage' = [storage EXCEPT !.updates = @ + 1,
                                  !.calls[p] = [IdleStorageCall EXCEPT
                                                    !.op = "updateContact",
                                                    !.pc = "getItem", !.id = id,
                                                    !.contact = updates]]
    /\ UNCHANGED <<parserVars, cleaningVars, codecVars, mobileVars, escaping, batch, payload, ocr>>

\* localStorage.clearAllContacts() up to its await AsyncStorage.removeItem
ClearAllContacts(p) ==
    /\ Free(p)
    /\ storage' = [storage EXCEPT !.calls[p] = [IdleStorageCall EXCEPT
                                                    !.op = "clearAllContacts",
                                                    !.pc = "removeItem"]]
    /\ UNCHANGED <<parserVars, cleaningVars, codecVars, mobileVars, escaping, batch, payload, ocr>>

\* the removeItem of clearAllContacts settled: nothing is stored any more when it
\* resolved; when it rejected the method throws
RemoveItemSettled(p, resolved) ==
    /\ storage.calls[p].pc = "removeItem"
    /\ storage' = IF resolved
                  THEN [storage EXCEPT !.contacts = <<>>, !.calls[p] = IdleStorageCall]
                  ELSE [storage EXCEPT !.calls[p] = IdleStorageCall]
    /\ UNCHANGED <<parserVars, cleaningVars, codecVars, mobileVars, escaping, batch, payload, ocr>>

\* handleSaveAll up to the first await of its loop: the results with a name, or the
\* alert that none has one
HandleSaveAll(p, results) ==
    /\ Free(p)
    /\ \E validContacts \in {SelectSeq(results, LAMBDA r : Len(r.name) > 0)} :
           IF Len(validContacts) = 0
           THEN storage' = [storage EXCEPT !.alert = "No valid contacts to save"]
           ELSE /\ storage.saves + Len(validContacts) <= MaxStored
                /\ storage' = [storage EXCEPT
                                   !.saves = @ + Len(validContacts),
                                   !.calls[p] = [IdleStorageCall EXCEPT
                                                     !.op = "handleSaveAll",
                                                     !.pc = "getItem",
                                                     !.validContacts = validContacts,
                                                     !.i = 1,
                                                     !.contact = validContacts[1]]]
    /\ UNCHANGED <<parserVars, cleaningVars, codecVars, mobileVars, escaping, batch, payload, ocr>>

\* the getItem of getAllContacts() settled.  saveContact reads the clock for the id and
\* again for createdAt, the clock having moved on in between when later, pushes the new
\* contact and calls setItem; deleteContact filters and calls setItem; updateContact
\* throws when the contact is not found, else replaces it and calls setItem; getContact
\* returns what find() finds
GetItemSettled(p, resolved, later) ==
    /\ storage.calls[p].pc = "getItem"
    /\ later => /\ storage.calls[p].op \in {"saveContact", "handleSaveAll"}
                /\ storage.now < MaxNow
    /\ \E item \in {IF resolved THEN Resolved(storage.contacts) ELSE Rejected} :
           storage' =
               IF storage.calls[p].op \in {"saveContact", "handleSaveAll"}
               THEN [storage EXCEPT
                         !.now = IF later THEN @ + 1 ELSE @,
                         !.calls[p].pc = "setItem",
                         !.calls[p].write =
                             saveContact(item, storage.calls[p].contact, storage.now,
                                         IF later THEN storage.now + 1 ELSE storage.now)]
               ELSE IF storage.calls[p].op = "deleteContact"
               THEN [storage EXCEPT
                         !.calls[p].pc = "setItem",
                         !.calls[p].write = deleteContact(item, storage.calls[p].id),
                         !.calls[p].removed =
                             Len(getAllContacts(item))
                                 - Len(deleteContact(item, storage.calls[p].id))]
               ELSE IF storage.calls[p].op = "updateContact"
               THEN IF findIndex(getAllContacts(item), storage.calls[p].id) = 0
                    THEN [storage EXCEPT !.calls[p] = IdleStorageCall]
                    ELSE [storage EXCEPT
                              !.calls[p].pc = "setItem",
                              !.calls[p].write =
                                  updateContact(item, storage.calls[p].id,
                                                storage.calls[p].contact)]
               ELSE [storage EXCEPT
                         !.got = IF Len(getContact(item, storage.calls[p].id)) = 0
                                 THEN <<>>
                                 ELSE <<getContact(item, storage.calls[p].id)[1]>>,
                         !.calls[p] = IdleStorageCall]
    /\ UNCHANGED <<parserVars, cleaningVars, codecVars, mobileVars, escaping, batch, payload, ocr>>

\* the setItem of saveContact, of deleteContact or of updateContact settled.  When it
\* resolved the list is stored, and handleSaveAll goes on to the saveContact of its next result or, after
\* the last, to its alerts; when it rejected the method throws, into the catch of
\* handleSaveAll when that called it
SetItemSettled(p, resolved) ==
    /\ storage.calls[p].pc = "setItem"
    /\ storage' =
           IF ~resolved
           THEN [storage EXCEPT
                     !.alert = IF storage.calls[p].op = "handleSaveAll"
                               THEN "Failed to save contacts" ELSE @,
                     !.calls[p] = IdleStorageCall]
           ELSE IF storage.calls[p].op = "deleteContact"
           THEN [storage EXCEPT !.contacts = storage.calls[p].write,
                                !.removed = storage.calls[p].removed,
                                !.calls[p] = IdleStorageCall]
           ELSE IF /\ storage.calls[p].op = "handleSaveAll"
                   /\ storage.calls[p].i < Len(storage.calls[p].validContacts)
           THEN [storage EXCEPT
                     !.contacts = storage.calls[p].write,
                     !.calls[p].pc = "getItem",
                     !.calls[p].write = <<>>,
                     !.calls[p].i = @ + 1,
                     !.calls[p].contact =
                         storage.calls[p].validContacts[storage.calls[p].i + 1]]
           ELSE [storage EXCEPT
                     !.contacts = storage.calls[p].write,
                     !.alert = IF storage.calls[p].op = "handleSaveAll"
                               THEN "Success" ELSE @,
                     !.calls[p] = IdleStorageCall]
    /\ UNCHANGED <<parserVars, cleaningVars, codecVars, mobileVars, escaping, batch, payload, ocr>>

NextStorage ==
    \/ Tick
    \/ \E p \in StorageCallers :
           \/ \E contact \in SavedContacts : SaveContact(p, contact)
           \/ \E results \in ReviewResults : HandleSaveAll(p, results)
           \/ \E k \in 1..Len(storage.contacts) : DeleteContact(p, storage.contacts[k].id)
           \/ \E k \in 1..Len(storage.contacts) : GetContact(p, storage.contacts[k].id)
           \/ \E k \in 1..Len(storage.contacts), updates \in ContactUpdates :
                  UpdateContact(p, storage.contacts[k].id, updates)
           \/ ClearAllContacts(p)
           \/ \E resolved \in BOOLEAN : RemoveItemSettled(p, resolved)
           \/ \E resolved, later \in BOOLEAN : GetItemSettled(p, resolved, later)
           \/ \E resolved \in BOOLEAN : SetItemSettled(p, resolved)

SpecStorage == InitStorage /\ [][NextStorage]_vars

\* C30: stored contact ids are unique: after any sequence of saveContact calls,
\* consecutive saves of a batch included, no two stored contacts have the same id, so
\* that deleteContact(id) removes exactly one contact and getContact(id) identifies a
\* single contact.
C30_UniqueIds ==
    /\ \A j, k \in 1..Len(storage.contacts) :
           j # k => storage.contacts[j].id # storage.contacts[k].id
    /\ storage.removed <= 1
    /\ \A k \in 1..Len(storage.contacts) :
           Len(getContact(Resolved(storage.contacts), storage.contacts[k].id)) = 1

=============================================================================
